---- MODULE Spec2Model ----
(***************************************************************************)
(* The token / key-wrapping protocol of eduflow-backend: the auth handlers *)
(* (register, login, logout, verify-token), verify_token, the revocation   *)
(* cascade, decrypt_local_token_for and the data handlers' use of them,    *)
(* over the four auth tables of the sqlite store.  Every store call is one *)
(* atomic step of the worker that runs the request; workers interleave     *)
(* between store calls, the wall clock moves between any two steps, and a  *)
(* store call may fail.  Then come add_new_local_token as an operation of  *)
(* its own (SpecProvision), the clock around the end of a session's life   *)
(* (SpecClock), the envelope types of crypt_types.rs (SpecCrypt) and the   *)
(* column types of db_derive (SpecDerive).                                 *)
(***************************************************************************)
EXTENDS Integers, Sequences, FiniteSets, Bags, TLC

(***************************************************************************)
(* Bounds of the model.                                                    *)
(***************************************************************************)
\* remote_token rows ever inserted (create_remote_token calls that reach the store)
MaxRemoteTokens == 2
\* store calls that fail in one behaviour
MaxFails == 1
\* last instant of the wall clock, in days
MaxClock == 14
\* pwcrypt_local_token rows ever inserted up to which add_new_local_token is
\* called outside handle_register
MaxLocalTokens == 2
\* rows ever inserted into the table of one DBObject type
MaxEntries == 2

\* the workers that serve requests
Workers == {"w1", "w2"}
\* request inputs
Usernames == {"alice", "bob"}
Passwords == {<<"pw1">>, <<"pw2">>}
\* the registrations clients send
Registrations == {<<"alice", <<"pw1">>>>}

(***************************************************************************)
(* Program constants.                                                      *)
(***************************************************************************)
TOKEN_EXPIRE == 14

\* the wall clock is observed once per session lifetime
TickDays == TOKEN_EXPIRE

\* objects::get_db_idents, cut to its first two record categories
get_db_idents == <<"CourseDB", "TopicDB">>

\* the strings generate_token returns; one symbol stands for one generated
\* 32-character string with its millisecond suffix
CHARSET ==
    <<"A", "B", "C", "D", "E", "F", "G", "H", "I", "J", "K", "L", "M",
      "N", "O", "P", "Q", "R", "S", "T", "U", "V", "W", "X", "Y", "Z",
      "a", "b", "c", "d", "e", "f", "g", "h", "i", "j", "k", "l", "m",
      "n", "o", "p", "q", "r", "s", "t", "u", "v", "w", "x", "y", "z",
      "1", "2", "3", "4", "5", "6", "7", "8", "9", "0">>

Digits == <<"0", "1", "2", "3", "4", "5", "6", "7", "8", "9">>

(***************************************************************************)
(* Results.                                                                *)
(***************************************************************************)
Err == [ok |-> FALSE]
Ok(v) == [ok |-> TRUE, val |-> v]

None == [some |-> FALSE]
Some(v) == [some |-> TRUE, val |-> v]

\* axum's StatusCode values the handlers answer with
OK == "200 OK"
UNAUTHORIZED == "401 Unauthorized"
CONFLICT == "409 Conflict"
INTERNAL_SERVER_ERROR == "500 Internal Server Error"

(***************************************************************************)
(* crypt: the provider is an authenticated cipher; a ciphertext opens      *)
(* under the key that made it and under no other.                          *)
(***************************************************************************)
encrypt(data, key) == [data_crypt |-> data, under |-> key]

decrypt(crypt, key) == IF crypt.under = key THEN Ok(crypt.data_crypt) ELSE Err

(***************************************************************************)
(* argon2: hash_password and verify_password.                              *)
(***************************************************************************)
hash_password(bytes) == [argon2 |-> bytes]

\* a verification that rejects every password, the registered one included:
\* what C37 must tell apart
verify_password_never(bytes, hash) == FALSE

\* a verification that accepts every password: what C2 must tell apart
verify_password_any(bytes, hash) == TRUE

verify_password(bytes, hash) == hash.argon2 = bytes

(***************************************************************************)
(* Decimal conversions and the bearer format.                              *)
(***************************************************************************)
RECURSIVE to_string(_)
to_string(n) ==
    IF n < 10 THEN <<Digits[n + 1]>>
    ELSE to_string(n \div 10) \o <<Digits[(n % 10) + 1]>>

DigitValue(c) == (CHOOSE i \in 1..10 : Digits[i] = c) - 1

IsDigit(c) == \E i \in 1..10 : Digits[i] = c

RECURSIVE parse_digits(_, _)
parse_digits(s, acc) ==
    IF s = <<>> THEN acc
    ELSE parse_digits(Tail(s), acc * 10 + DigitValue(Head(s)))

\* str::parse::<i32> on a string of the model's alphabet
parse(s) ==
    IF s # <<>> /\ \A i \in 1..Len(s) : IsDigit(s[i])
    THEN Ok(parse_digits(s, 0))
    ELSE Err

\* str::split("_"): the pieces between the separators, empty pieces included
RECURSIVE split(_, _)
split(s, cur) ==
    IF s = <<>> THEN <<cur>>
    ELSE IF Head(s) = "_" THEN <<cur>> \o split(Tail(s), <<>>)
    ELSE split(Tail(s), Append(cur, Head(s)))

\* str::split_terminator("_"): as split, without a trailing empty piece
split_terminator(s) ==
    LET pieces == split(s, <<>>)
    IN IF pieces[Len(pieces)] = <<>>
       THEN SubSeq(pieces, 1, Len(pieces) - 1)
       ELSE pieces

split_auth_header(auth_header) ==
    IF auth_header = <<>> \/ Head(auth_header) # "Bearer " THEN Err
    ELSE LET pieces == split_terminator(Tail(auth_header))
         IN IF Len(pieces) < 2 THEN Err
            ELSE LET token_id == parse(pieces[1])
                 IN IF token_id.ok
                    THEN Ok([token_id |-> token_id.val, token |-> pieces[2]])
                    ELSE Err

\* a token without the separator: what C14 must tell apart
bearer_token_unseparated(remote_token_id, remote_token) ==
    to_string(remote_token_id) \o remote_token

\* "{remote_token_id}_{remote_token}" as create_remote_token returns it
bearer_token(remote_token_id, remote_token) ==
    to_string(remote_token_id) \o <<"_">> \o remote_token

Bearer(token) == <<"Bearer ">> \o token

(***************************************************************************)
(* State.                                                                  *)
(***************************************************************************)
VARIABLES
    user,                 \* table user: rows [id, username, password_hash]
    pwcrypt_local_token,  \* rows [id, user_id, local_token, used_for]
    rtcrypt_local_token,  \* a bag of rows [local_token_id, local_token, decrypt_by_rt_id]:
                          \* no statement reads or filters by this table's id
    remote_token,         \* rows [id, rt_hash, user_id, valid_until]
    entries,              \* the tables of the DBObject types: rows [db_table, id,
                          \* user_id, name]
    sqlite_sequence,      \* AUTOINCREMENT: the largest id each table ever gave out
    now,                  \* Utc::now(), in days
    fails,                \* store calls that have failed so far
    proc,                 \* the requests in flight: a bag of handler frames
    last,                 \* the answer the last step sent, if it sent one
    issued,               \* bearer tokens returned to clients, with what the login read
    provisioned,          \* local secrets generated and stored, per (user, kind), and by whom
    revoked,              \* session ids a revocation cascade has deleted rows of
    logged_out            \* session ids whose logout returned Ok

tables ==
    <<user, pwcrypt_local_token, rtcrypt_local_token, remote_token, entries,
      sqlite_sequence>>

history == <<issued, provisioned, revoked, logged_out>>

vars == <<user, pwcrypt_local_token, rtcrypt_local_token, remote_token, entries,
          sqlite_sequence,
          now, fails, proc, last, issued, provisioned, revoked, logged_out>>

\* a handler's frame: where it is (pc) and its locals
Frame ==
    [pc |-> "", op |-> "", password |-> <<>>, user_id |-> 0, kinds |-> <<>>,
     token_id |-> 0, token |-> <<>>, lts |-> <<>>, read |-> {}, used_for |-> "",
     verified |-> FALSE]

\* a handler's answer: err is the error the handler logged or dropped, body
\* the response body; user_id, token_id, used_for and read are the handler's
\* locals of these names when it answered, where it had them; hashes counts
\* the Argon2 computations the body of handle_login made before it answered
Answer(op, status, err, body) ==
    [op |-> op, status |-> status, err |-> err, body |-> body,
     user_id |-> 0, token_id |-> 0, used_for |-> "", read |-> {}, hashes |-> 0]

\* nothing was answered in this step
NoAnswer == Answer("", "", "", <<>>)

InFlight == BagToSet(proc)

\* no answer is on its way out: the steps of the program are observed one
\* answer at a time
Quiet == last = NoAnswer

\* a worker is free to take a request
FreeWorker == Quiet /\ BagCardinality(proc) < Cardinality(Workers)

\* the answer of the last step has gone out to its client
respond ==
    /\ ~Quiet
    /\ last' = NoAnswer
    /\ UNCHANGED <<tables, now, fails, proc, history>>

\* the worker that took a request has run its handler up to frame r
Begin(r) ==
    /\ proc' = proc (+) SetToBag({r})
    /\ last' = NoAnswer

\* the worker that took a request answers it in its first step
BeginReply(answer) ==
    /\ proc' = proc
    /\ last' = answer

\* the handler at frame r goes on to frame r2
Goto(r, r2) ==
    /\ proc' = (proc (-) SetToBag({r})) (+) SetToBag({r2})
    /\ last' = NoAnswer

\* the handler at frame r answers and its worker is free again
Reply(r, answer) ==
    /\ proc' = proc (-) SetToBag({r})
    /\ last' = answer

Init ==
    /\ user = {}
    /\ pwcrypt_local_token = {}
    /\ rtcrypt_local_token = EmptyBag
    /\ remote_token = {}
    /\ entries = {}
    /\ sqlite_sequence = [user |-> 0, pwcrypt_local_token |-> 0, remote_token |-> 0]
    /\ now = 0
    /\ fails = 0
    /\ proc = EmptyBag
    /\ last = NoAnswer
    /\ issued = {}
    /\ provisioned = {}
    /\ revoked = {}
    /\ logged_out = {}

(***************************************************************************)
(* The store's queries (db/sqlite.rs), on the tables as they stand.        *)
(***************************************************************************)
\* query_row on a table kept as a bag: a row of the result set, an error when
\* it is empty
query_row_bag(rows) ==
    IF rows = {} THEN Err
    ELSE Ok(CHOOSE r \in rows : TRUE)

\* query_row: the first row of a result set, an error when it is empty
query_row(rows) ==
    IF rows = {} THEN Err
    ELSE Ok(CHOOSE r \in rows : \A o \in rows : r.id <= o.id)

\* query_map(..).collect(): the rows of a result set in rowid order
RECURSIVE query_map(_)
query_map(rows) ==
    IF rows = {} THEN <<>>
    ELSE LET first == CHOOSE r \in rows : \A o \in rows : r.id <= o.id
         IN <<first>> \o query_map(rows \ {first})

get_user_by_username(username) ==
    query_row({u \in user : u.username = username})

get_local_tokens_by_user_pwcrypt(user_id) ==
    query_map({lt \in pwcrypt_local_token : lt.user_id = user_id})

\* a query whose WHERE leaves out used_for: what C27 must tell apart
get_local_token_by_user_only_pwcrypt(user_id, used_for) ==
    query_row({lt \in pwcrypt_local_token : lt.user_id = user_id})

get_local_token_by_used_for_pwcrypt(user_id, used_for) ==
    query_row({lt \in pwcrypt_local_token :
                  lt.user_id = user_id /\ lt.used_for = used_for})

get_local_token_by_id_rtcrypt(local_token_id, remote_token_id) ==
    query_row_bag({lt \in BagToSet(rtcrypt_local_token) :
                  lt.local_token_id = local_token_id
                  /\ lt.decrypt_by_rt_id = remote_token_id})

get_remote_token(token_id) ==
    query_row({rt \in remote_token : rt.id = token_id})

\* a delete that removes nothing: what C4 must tell apart
del_local_token_rtcrypt_kept(remote_token_id) == rtcrypt_local_token

\* a delete that removes the wrapped rows of every session: what C38 must
\* tell apart
del_local_token_rtcrypt_every(remote_token_id) == EmptyBag

\* DELETE FROM rtcrypt_local_token WHERE decrypt_by_rt_id = ?1
del_local_token_rtcrypt_by_rt(remote_token_id) ==
    [lt \in {x \in BagToSet(rtcrypt_local_token) :
                 x.decrypt_by_rt_id # remote_token_id} |-> rtcrypt_local_token[lt]]

\* a delete that removes every session: what C6 must tell apart
del_remote_token_all(remote_token_id) == {}

\* a delete that removes nothing: what C3 must tell apart
del_remote_token_kept(remote_token_id) == remote_token

\* DELETE FROM remote_token WHERE id = ?1
del_remote_token(remote_token_id) ==
    {rt \in remote_token : rt.id # remote_token_id}

\* a rowid without AUTOINCREMENT, one more than the largest id in the table:
\* what C25 must tell apart
next_rowid_reused(table) ==
    LET ids == {row.id : row \in CASE table = "user" -> user
                                   [] table = "pwcrypt_local_token" -> pwcrypt_local_token
                                   [] table = "remote_token" -> remote_token}
    IN IF ids = {} THEN 1
       ELSE (CHOOSE id \in ids : \A other \in ids : other <= id) + 1

\* INTEGER PRIMARY KEY AUTOINCREMENT: one more than the largest id ever used
next_rowid(table) == sqlite_sequence[table] + 1

\* the generated strings the program or a client still holds
held ==
    {rt.rt_hash.argon2 : rt \in remote_token}
      \cup {lt.local_token.under : lt \in BagToSet(rtcrypt_local_token)}
      \cup {r.token : r \in InFlight}
      \cup {t.token : t \in issued}
      \cup {s.local_token : s \in provisioned}

\* a generator that returns one string every time: what C5 must tell apart
generate_token_fixed == <<CHARSET[1]>>

\* generate_token: a string that equals none the program or a client holds
\* (the first such string of CHARSET; a string nobody holds any more is as
\* good as one never drawn)
generate_token ==
    LET i == CHOOSE i \in 1..Len(CHARSET) :
                 /\ <<CHARSET[i]>> \notin held
                 /\ \A j \in 1..(i - 1) : <<CHARSET[j]>> \in held
    IN <<CHARSET[i]>>

\* one store call fails (get_conn or the statement returns an error)
StoreFails ==
    /\ fails < MaxFails
    /\ fails' = fails + 1

(***************************************************************************)
(* auth_handler.rs: register, login and create_remote_token.               *)
(***************************************************************************)
\* the model stops issuing sessions at MaxRemoteTokens
CanIssue ==
    sqlite_sequence.remote_token
      + BagCardinality([r \in {q \in InFlight :
                                  q.pc \in {"reg_local_tokens", "crt_new_remote_token"}}
                          |-> proc[r]])
      < MaxRemoteTokens

\* a user table without a constraint on username: what C12 must tell apart
username_unconstrained(username) == TRUE

\* user.username TEXT NOT NULL UNIQUE: whether the INSERT of new_user passes
\* the constraint
username_unique(username) == ~ \E u \in user : u.username = username

\* handle_register up to new_user: the request arrives, the password is hashed,
\* the user row is inserted (username is UNIQUE)
handle_register ==
    /\ FreeWorker
    /\ \E reg \in Registrations :
       LET username == reg[1]
           password == reg[2]
       IN \/ /\ StoreFails
             /\ BeginReply(Answer("register", CONFLICT, "new_user", <<>>))
             /\ UNCHANGED <<tables, now, history>>
          \/ /\ ~username_unique(username)
             /\ BeginReply(Answer("register", CONFLICT, "new_user", <<>>))
             /\ UNCHANGED <<tables, now, fails, history>>
          \/ /\ username_unique(username)
             /\ CanIssue
             /\ LET user_id == next_rowid("user")
                IN /\ user' = user \cup {[id |-> user_id, username |-> username,
                                          password_hash |-> hash_password(password)]}
                   /\ sqlite_sequence' = [sqlite_sequence EXCEPT !.user = user_id]
                   /\ Begin([Frame EXCEPT !.pc = "reg_local_tokens", !.op = "register",
                                          !.password = password, !.user_id = user_id,
                                          !.kinds = get_db_idents])
             /\ UNCHANGED <<entries, pwcrypt_local_token, rtcrypt_local_token, remote_token,
                            now, fails, history>>

\* a row whose local token is encrypted under itself: what C30 must tell apart
new_local_token_pwcrypt_self_keyed(user_id, password, used_for, local_token) ==
    [id |-> next_rowid("pwcrypt_local_token"), user_id |-> user_id,
     local_token |-> encrypt(local_token, local_token), used_for |-> used_for]

\* a row whose local token is encrypted under an empty key instead of the
\* password: what C28 must tell apart
new_local_token_pwcrypt_unkeyed(user_id, password, used_for, local_token) ==
    [id |-> next_rowid("pwcrypt_local_token"), user_id |-> user_id,
     local_token |-> encrypt(local_token, <<>>), used_for |-> used_for]

\* add_new_local_token: the row it inserts
new_local_token_pwcrypt(user_id, password, used_for, local_token) ==
    [id |-> next_rowid("pwcrypt_local_token"), user_id |-> user_id,
     local_token |-> encrypt(local_token, password), used_for |-> used_for]

\* a for_each that leaves for create_remote_token after its first variant:
\* what C26 must tell apart
for_each_next_first_only(r) ==
    [r EXCEPT !.kinds = Tail(r.kinds), !.pc = "crt_new_remote_token"]

\* handle_register's for_each goes on to its next variant, and after the last
\* one to create_remote_token
for_each_next(r) ==
    [r EXCEPT !.kinds = Tail(r.kinds),
              !.pc = IF Tail(r.kinds) = <<>>
                     THEN "crt_new_remote_token"
                     ELSE "reg_local_tokens"]

\* a for_each that gives up its remaining variants at the first error: what
\* C11 must tell apart
add_new_local_token_failed_abort(r) ==
    [r EXCEPT !.kinds = <<>>, !.pc = "crt_new_remote_token"]

\* a for_each that tries the same variant again after an error: what C33
\* must tell apart
add_new_local_token_failed_retry(r) == r

\* handle_register, lines 128-130: an error of add_new_local_token is logged
\* and the for_each goes on
add_new_local_token_failed(r) == for_each_next(r)

\* handle_register, one turn of its for_each over get_db_idents:
\* add_new_local_token, whose failure is logged and skipped
reg_local_tokens(r) ==
    /\ Quiet
    /\ r.pc = "reg_local_tokens"
    /\ LET used_for == Head(r.kinds)
           local_token == generate_token
           row == new_local_token_pwcrypt(r.user_id, r.password, used_for, local_token)
       IN \/ /\ StoreFails
             /\ Goto(r, add_new_local_token_failed(r))
             /\ UNCHANGED <<pwcrypt_local_token, sqlite_sequence, provisioned>>
          \/ /\ pwcrypt_local_token' = pwcrypt_local_token \cup {row}
             /\ sqlite_sequence' =
                  [sqlite_sequence EXCEPT !.pwcrypt_local_token = row.id]
             /\ provisioned' = provisioned \cup
                  {[by |-> "register", user_id |-> r.user_id, used_for |-> used_for,
                    local_token |-> local_token]}
             /\ Goto(r, for_each_next(r))
             /\ UNCHANGED fails
    /\ UNCHANGED <<entries, user, rtcrypt_local_token, remote_token, now,
                   issued, revoked, logged_out>>

\* a login that answers an unknown user at once, without the dummy hash
handle_login_unhashed ==
    /\ FreeWorker
    /\ \E username \in Usernames, password \in Passwords :
       LET found == get_user_by_username(username)
       IN \/ /\ StoreFails
             /\ BeginReply(Answer("login", UNAUTHORIZED, "no user", <<>>))
             /\ UNCHANGED <<tables, now, history>>
          \/ /\ ~found.ok
             /\ BeginReply(Answer("login", UNAUTHORIZED, "no user", <<>>))
             /\ UNCHANGED <<tables, now, fails, history>>
          \/ /\ found.ok
             /\ ~verify_password(password, found.val.password_hash)
             /\ BeginReply([Answer("login", UNAUTHORIZED, "wrong password", <<>>)
                              EXCEPT !.hashes = Len(<<hash_password(password)>>)])
             /\ UNCHANGED <<tables, now, fails, history>>
          \/ /\ found.ok
             /\ verify_password(password, found.val.password_hash)
             /\ CanIssue
             /\ Begin([Frame EXCEPT !.pc = "crt_new_remote_token", !.op = "login",
                                    !.password = password, !.user_id = found.val.id])
             /\ UNCHANGED <<tables, now, fails, history>>

\* handle_login up to create_remote_token: get_user_by_username, then the
\* dummy hash_password of the password when no user was found (lines 160-170)
\* or verify_password, which hashes the password under the stored salt
handle_login ==
    /\ FreeWorker
    /\ \E username \in Usernames, password \in Passwords :
       LET found == get_user_by_username(username)
       IN \/ /\ StoreFails
             /\ BeginReply([Answer("login", UNAUTHORIZED, "no user", <<>>)
                              EXCEPT !.hashes = Len(<<hash_password(password)>>)])
             /\ UNCHANGED <<tables, now, history>>
          \/ /\ ~found.ok
             /\ BeginReply([Answer("login", UNAUTHORIZED, "no user", <<>>)
                              EXCEPT !.hashes = Len(<<hash_password(password)>>)])
             /\ UNCHANGED <<tables, now, fails, history>>
          \/ /\ found.ok
             /\ ~verify_password(password, found.val.password_hash)
             /\ BeginReply([Answer("login", UNAUTHORIZED, "wrong password", <<>>)
                              EXCEPT !.hashes = Len(<<hash_password(password)>>)])
             /\ UNCHANGED <<tables, now, fails, history>>
          \/ /\ found.ok
             /\ verify_password(password, found.val.password_hash)
             /\ CanIssue
             /\ Begin([Frame EXCEPT !.pc = "crt_new_remote_token", !.op = "login",
                                    !.password = password, !.user_id = found.val.id])
             /\ UNCHANGED <<tables, now, fails, history>>

\* create_remote_token returns an error: the handler answers
\* INTERNAL_SERVER_ERROR and undoes nothing
LoginFailed(r, err) ==
    [Answer(r.op, INTERNAL_SERVER_ERROR, err, <<>>) EXCEPT
        !.user_id = r.user_id, !.token_id = r.token_id, !.read = r.read]

\* create_remote_token: Utc::now().naive_utc() + Days::new(valid_days)
valid_until(valid_days) == now + valid_days

\* create_remote_token: the remote_token row new_remote_token inserts
new_remote_token(rt_hash, user_id, until) ==
    [id |-> next_rowid("remote_token"), rt_hash |-> rt_hash, user_id |-> user_id,
     valid_until |-> until]

\* create_remote_token, lines 203-227: generate and hash the token, insert its row
crt_new_remote_token(r) ==
    /\ Quiet
    /\ r.pc = "crt_new_remote_token"
    /\ LET token == generate_token
           row == new_remote_token(hash_password(token), r.user_id,
                                   valid_until(TOKEN_EXPIRE))
       IN \/ /\ StoreFails
             /\ Reply(r, LoginFailed(r, "store"))
             /\ UNCHANGED <<remote_token, sqlite_sequence>>
          \/ /\ remote_token' = remote_token \cup {row}
             /\ sqlite_sequence' = [sqlite_sequence EXCEPT !.remote_token = row.id]
             /\ Goto(r, [r EXCEPT !.pc = "crt_get_local_tokens",
                                  !.token = token, !.token_id = row.id])
             /\ UNCHANGED fails
    /\ UNCHANGED <<entries, user, pwcrypt_local_token, rtcrypt_local_token, now, history>>

\* create_remote_token returns Ok: the handler answers with the bearer token
ReturnToken(r, read) ==
    /\ Reply(r, [Answer(r.op, OK, "", bearer_token(r.token_id, r.token)) EXCEPT
                    !.user_id = r.user_id, !.token_id = r.token_id, !.read = read])
    /\ issued' = issued \cup {[by |-> r.op, user_id |-> r.user_id,
                               token_id |-> r.token_id, token |-> r.token,
                               read |-> read]}

\* create_remote_token, line 231: get_local_tokens_by_user_pwcrypt
crt_get_local_tokens(r) ==
    /\ Quiet
    /\ r.pc = "crt_get_local_tokens"
    /\ \/ /\ StoreFails
          /\ Reply(r, LoginFailed(r, "store"))
          /\ UNCHANGED issued
       \/ /\ LET lts == get_local_tokens_by_user_pwcrypt(r.user_id)
             IN IF lts = <<>>
                THEN ReturnToken(r, {})
                ELSE /\ Goto(r, [r EXCEPT !.pc = "crt_rewrap", !.lts = lts,
                                          !.read = {lts[i].id : i \in 1..Len(lts)}])
                     /\ UNCHANGED issued
          /\ UNCHANGED fails
    /\ UNCHANGED <<tables, now, provisioned, revoked, logged_out>>

\* a rewrap that keeps the password as the key: what C1 must tell apart
rewrap_key_password(password, remote_token_) == password

\* create_remote_token, line 234: the key the local token is re-encrypted under
rewrap_key(password, remote_token_) == remote_token_

\* a row that is given the session's id where the LocalToken's id belongs: what
\* C29 must tell apart
new_local_token_rtcrypt_rt_twice(local_token_id, local_token_crypt, decryptable_by_rt_id) ==
    [local_token_id |-> decryptable_by_rt_id, local_token |-> local_token_crypt,
     decrypt_by_rt_id |-> decryptable_by_rt_id]

\* create_remote_token, line 235: the row new_local_token_rtcrypt inserts
new_local_token_rtcrypt(local_token_id, local_token_crypt, decryptable_by_rt_id) ==
    [local_token_id |-> local_token_id, local_token |-> local_token_crypt,
     decrypt_by_rt_id |-> decryptable_by_rt_id]

\* create_remote_token, one turn of its try_for_each: decrypt under the
\* password, encrypt under the remote token, insert; any error ends the login
crt_rewrap(r) ==
    /\ Quiet
    /\ r.pc = "crt_rewrap"
    /\ LET lt == Head(r.lts)
           local_token == decrypt(lt.local_token, r.password)
       IN \/ /\ local_token.ok
             /\ StoreFails
             /\ Reply(r, LoginFailed(r, "store"))
             /\ UNCHANGED <<rtcrypt_local_token, issued>>
          \/ /\ UNCHANGED fails
             /\ IF ~local_token.ok
                THEN /\ Reply(r, LoginFailed(r, "decrypt"))
                     /\ UNCHANGED <<rtcrypt_local_token, issued>>
                ELSE LET row == new_local_token_rtcrypt(
                                    lt.id,
                                    encrypt(local_token.val,
                                            rewrap_key(r.password, r.token)),
                                    r.token_id)
                     IN /\ rtcrypt_local_token' = rtcrypt_local_token (+) SetToBag({row})
                        /\ IF Tail(r.lts) = <<>>
                           THEN ReturnToken(r, r.read)
                           ELSE /\ Goto(r, [r EXCEPT !.lts = Tail(r.lts)])
                                /\ UNCHANGED issued
    /\ UNCHANGED <<entries, user, pwcrypt_local_token, remote_token, sqlite_sequence, now,
                   provisioned, revoked, logged_out>>

(***************************************************************************)
(* auth_handler.rs: verify_token and the handlers that start with it.      *)
(***************************************************************************)
\* a secret no generate_token call returned
Forged == <<"X">>

\* the Authorization headers clients send: none, a token without "Bearer ",
\* one without "_", one whose id is no number, well-formed bearers that name
\* any session id with a secret a client was given or a forged one, and the
\* bearer tokens clients were given with one more "_" and segment after them
AuthHeaders ==
    {None, Some(bearer_token(1, Forged)), Some(Bearer(<<"1">> \o Forged)),
     Some(Bearer(Forged \o <<"_">> \o Forged))}
      \cup {Some(Bearer(bearer_token(id, secret))) :
               id \in 1..MaxRemoteTokens,
               secret \in {t.token : t \in issued} \cup {Forged}}
      \cup {Some(Bearer(bearer_token(t.token_id, t.token) \o <<"_">> \o Forged)) :
               t \in issued}

\* an expiry test that lets the instant valid_until itself pass: what C18
\* must tell apart
token_expired_after(token_db) == token_db.valid_until < now

\* verify_token, line 284: the expiry test
token_expired(token_db) == token_db.valid_until <= now

\* a check that purges the session named when the secret does not match: what
\* C34 must tell apart
check_remote_token_purge_on_mismatch(token_id, token) ==
    LET token_db == get_remote_token(token_id)
    IN IF ~token_db.ok THEN [result |-> "Invalid Token"]
       ELSE IF token_expired(token_db.val) \/ ~verify_password(token, token_db.val.rt_hash)
       THEN [result |-> "Token expired", token_id |-> token_id]
       ELSE [result |-> "Ok", user_id |-> token_db.val.user_id,
             token_id |-> token_id, token |-> token]

\* a check that returns the session's id where the user's id belongs: what
\* C35 must tell apart
check_remote_token_id_as_user(token_id, token) ==
    LET token_db == get_remote_token(token_id)
    IN IF ~token_db.ok THEN [result |-> "Invalid Token"]
       ELSE IF token_expired(token_db.val)
       THEN [result |-> "Token expired", token_id |-> token_id]
       ELSE IF verify_password(token, token_db.val.rt_hash)
       THEN [result |-> "Ok", user_id |-> token_id,
             token_id |-> token_id, token |-> token]
       ELSE [result |-> "Invalid Token"]

\* a check that never compares the secret: what C9 must tell apart
check_remote_token_unchecked(token_id, token) ==
    LET token_db == get_remote_token(token_id)
    IN IF ~token_db.ok THEN [result |-> "Invalid Token"]
       ELSE IF token_expired(token_db.val)
       THEN [result |-> "Token expired", token_id |-> token_id]
       ELSE [result |-> "Ok", user_id |-> token_db.val.user_id,
             token_id |-> token_id, token |-> token]

\* a check that compares the secret before it looks at valid_until: what C24
\* must tell apart
check_remote_token_secret_first(token_id, token) ==
    LET token_db == get_remote_token(token_id)
    IN IF ~token_db.ok THEN [result |-> "Invalid Token"]
       ELSE IF ~verify_password(token, token_db.val.rt_hash)
       THEN [result |-> "Invalid Token"]
       ELSE IF token_expired(token_db.val)
       THEN [result |-> "Token expired", token_id |-> token_id]
       ELSE [result |-> "Ok", user_id |-> token_db.val.user_id,
             token_id |-> token_id, token |-> token]

\* verify_token, lines 279-301, on the token id and secret of the header:
\* get_remote_token, the expiry test, the secret against the stored hash
check_remote_token(token_id, token) ==
    LET token_db == get_remote_token(token_id)
    IN IF ~token_db.ok THEN [result |-> "Invalid Token"]
       ELSE IF token_expired(token_db.val)
       THEN [result |-> "Token expired", token_id |-> token_id]
       ELSE IF verify_password(token, token_db.val.rt_hash)
       THEN [result |-> "Ok", user_id |-> token_db.val.user_id,
             token_id |-> token_id, token |-> token]
       ELSE [result |-> "Invalid Token"]

\* verify_token as far as its result is decided by what it reads: the header,
\* the remote_token row and the clock
verify_token(auth_header) ==
    IF ~auth_header.some THEN [result |-> "Invalid Token"]
    ELSE LET parsed == split_auth_header(auth_header.val)
         IN IF ~parsed.ok THEN [result |-> "Invalid Token"]
            ELSE check_remote_token(parsed.val.token_id, parsed.val.token)

\* the record kinds a request of handler op can name in its path; the
\* requests that write name the first kind
Kinds(op) ==
    CASE op = "get" -> {get_db_idents[i] : i \in 1..Len(get_db_idents)}
      [] op \in {"new", "delete"} -> {get_db_idents[1]}
      [] OTHER -> {""}

\* whether verify_token gets as far as its store call
reaches_store(auth_header) ==
    auth_header.some /\ split_auth_header(auth_header.val).ok

\* the session id a header names, 0 when it names none
named_token_id(auth_header) ==
    IF reaches_store(auth_header)
    THEN split_auth_header(auth_header.val).val.token_id
    ELSE 0

\* a handler's call of verify_token on a request's header: get_remote_token is
\* the store call; an expired token goes on to invalidate_remote_token, a
\* verified one to `after`, every other outcome is answered UNAUTHORIZED
call_verify_token(op, auth_header, after) ==
    /\ \/ /\ reaches_store(auth_header)
          /\ StoreFails
          /\ BeginReply(Answer(op, UNAUTHORIZED, "store", <<>>))
       \/ /\ UNCHANGED fails
          /\ LET verified == verify_token(auth_header)
             IN CASE verified.result = "Invalid Token" ->
                       BeginReply([Answer(op, UNAUTHORIZED, "Invalid Token", <<>>) EXCEPT
                                      !.token_id = named_token_id(auth_header)])
                  [] verified.result = "Token expired" ->
                       Begin([Frame EXCEPT !.pc = "inv_del_rtcrypt", !.op = op,
                                           !.token_id = verified.token_id])
                  [] verified.result = "Ok" ->
                       IF after = "answer"
                       THEN BeginReply([Answer(op, OK, "", <<>>) EXCEPT
                                           !.user_id = verified.user_id,
                                           !.token_id = verified.token_id])
                       ELSE \E used_for \in Kinds(op) :
                              Begin([Frame EXCEPT !.pc = after, !.op = op,
                                                  !.verified = TRUE,
                                                  !.user_id = verified.user_id,
                                                  !.token_id = verified.token_id,
                                                  !.token = verified.token,
                                                  !.used_for = used_for])
    /\ UNCHANGED <<tables, now, history>>

\* GET /auth/verify-token
handle_verify ==
    /\ FreeWorker
    /\ \E auth_header \in AuthHeaders :
        call_verify_token("verify", auth_header, "answer")

\* POST /auth/logout up to invalidate_remote_token
handle_logout ==
    /\ FreeWorker
    /\ \E auth_header \in AuthHeaders :
        call_verify_token("logout", auth_header, "inv_del_rtcrypt")

\* GET /data/<kind> up to decrypt_local_token_for
handle_get ==
    /\ FreeWorker
    /\ \E auth_header \in AuthHeaders :
        call_verify_token("get", auth_header, "dlt_decrypt")

\* what a handler answers when invalidate_remote_token returns an error: logout
\* after a verified token, or verify_token's own call on an expired token
invalidate_failed(r) ==
    IF r.verified
    THEN Answer(r.op, INTERNAL_SERVER_ERROR, "store", <<>>)
    ELSE Answer(r.op, UNAUTHORIZED, "store", <<>>)

\* invalidate_remote_token, line 247: del_local_token_rtcrypt_by_rt
inv_del_rtcrypt(r) ==
    /\ Quiet
    /\ r.pc = "inv_del_rtcrypt"
    /\ \/ /\ StoreFails
          /\ Reply(r, invalidate_failed(r))
          /\ UNCHANGED <<rtcrypt_local_token, revoked>>
       \/ /\ rtcrypt_local_token' = del_local_token_rtcrypt_by_rt(r.token_id)
          /\ revoked' = revoked \cup {r.token_id}
          /\ Goto(r, [r EXCEPT !.pc = "inv_del_remote_token"])
          /\ UNCHANGED fails
    /\ UNCHANGED <<entries, user, pwcrypt_local_token, remote_token, sqlite_sequence, now,
                   issued, provisioned, logged_out>>

\* invalidate_remote_token, line 248: del_remote_token, and the caller's answer
inv_del_remote_token(r) ==
    /\ Quiet
    /\ r.pc = "inv_del_remote_token"
    /\ \/ /\ StoreFails
          /\ Reply(r, invalidate_failed(r))
          /\ UNCHANGED <<remote_token, logged_out>>
       \/ /\ remote_token' = del_remote_token(r.token_id)
          /\ IF r.verified
             THEN /\ Reply(r, [Answer(r.op, OK, "", <<>>) EXCEPT
                                  !.token_id = r.token_id])
                  /\ logged_out' = logged_out \cup {r.token_id}
             ELSE /\ Reply(r, [Answer(r.op, UNAUTHORIZED, "Token expired", <<>>) EXCEPT
                                  !.token_id = r.token_id])
                  /\ UNCHANGED logged_out
          /\ UNCHANGED fails
    /\ UNCHANGED <<entries, user, pwcrypt_local_token, rtcrypt_local_token, sqlite_sequence,
                   now, issued, provisioned, revoked>>

\* an unwrap that returns an empty key when the wrapped row is missing: what
\* C16 must tell apart
unwrap_or_default(local_token_id, remote_token_id, remote_token_) ==
    LET local_token_rtcrypt == get_local_token_by_id_rtcrypt(local_token_id, remote_token_id)
    IN IF local_token_rtcrypt.ok
       THEN decrypt(local_token_rtcrypt.val.local_token, remote_token_)
       ELSE Ok(<<>>)

\* decrypt_local_token_for, lines 308-313: get_local_token_by_id_rtcrypt and
\* the decryption under the remote token
unwrap(local_token_id, remote_token_id, remote_token_) ==
    LET local_token_rtcrypt == get_local_token_by_id_rtcrypt(local_token_id, remote_token_id)
    IN IF local_token_rtcrypt.ok
       THEN decrypt(local_token_rtcrypt.val.local_token, remote_token_)
       ELSE Err

\* decrypt_local_token_for: get_local_token_by_used_for_pwcrypt, then unwrap
decrypt_local_token_for(user_id, used_for, remote_token_id, remote_token_) ==
    LET local_token_pwcrypt == get_local_token_by_used_for_pwcrypt(user_id, used_for)
    IN IF local_token_pwcrypt.ok
       THEN unwrap(local_token_pwcrypt.val.id, remote_token_id, remote_token_)
       ELSE Err

\* the record handler's call of decrypt_local_token_for, and its answer.  The
\* two reads are one step: pwcrypt_local_token rows are only ever inserted and
\* the first read returns the oldest row of (user, kind), so it returns at the
\* time of the second read what it returned at its own
dlt_decrypt(r) ==
    /\ Quiet
    /\ r.pc = "dlt_decrypt"
    /\ \/ /\ StoreFails
          /\ Reply(r, Answer(r.op, INTERNAL_SERVER_ERROR, "store", <<>>))
       \/ /\ UNCHANGED fails
          /\ LET local_token ==
                   decrypt_local_token_for(r.user_id, r.used_for, r.token_id, r.token)
             IN IF local_token.ok
                THEN Reply(r, [Answer(r.op, OK, "", local_token.val) EXCEPT
                                  !.user_id = r.user_id, !.token_id = r.token_id,
                                  !.used_for = r.used_for])
                ELSE Reply(r, [Answer(r.op, INTERNAL_SERVER_ERROR, "no key", <<>>) EXCEPT
                                  !.user_id = r.user_id, !.token_id = r.token_id,
                                  !.used_for = r.used_for])
    /\ UNCHANGED <<tables, now, history>>

\* the wall clock moves on
Tick ==
    /\ Quiet
    /\ now + TickDays <= MaxClock
    /\ now' = now + TickDays
    /\ last' = NoAnswer
    /\ UNCHANGED <<tables, fails, proc, history>>

Next ==
    \/ handle_register
    \/ handle_login
    \/ handle_verify
    \/ handle_logout
    \/ handle_get
    \/ \E r \in InFlight : reg_local_tokens(r)
    \/ \E r \in InFlight : crt_new_remote_token(r)
    \/ \E r \in InFlight : crt_get_local_tokens(r)
    \/ \E r \in InFlight : crt_rewrap(r)
    \/ \E r \in InFlight : inv_del_rtcrypt(r)
    \/ \E r \in InFlight : inv_del_remote_token(r)
    \/ \E r \in InFlight : dlt_decrypt(r)
    \/ respond
    \/ Tick

Spec == Init /\ [][Next]_vars

(***************************************************************************)
(* What the claims speak of, on a state.                                   *)
(***************************************************************************)
\* the header a client sends with the bearer token it was given
header_of(t) == Some(Bearer(bearer_token(t.token_id, t.token)))

\* the LocalToken row ids wrapped for session remote_token_id
wrapped_for(remote_token_id) ==
    {lt.local_token_id : lt \in {x \in BagToSet(rtcrypt_local_token) :
                                    x.decrypt_by_rt_id = remote_token_id}}

\* the LocalToken row decrypt_local_token_for reads for (user, kind) is one
\* the login of bearer token t had read
read_by(t, used_for) ==
    LET lt == get_local_token_by_used_for_pwcrypt(t.user_id, used_for)
    IN lt.ok /\ lt.val.id \in t.read

\* no revocation cascade has deleted rows of the session of bearer token t
untouched(t) == t.token_id \notin revoked

(***************************************************************************)
(* C1                                                                      *)
(***************************************************************************)
\* C1, as amended: for every bearer token Register or Login has returned whose
\* session no revocation has touched, and every (user, kind) whose LocalToken
\* row that login had read, decrypt_local_token_for with the session's id and
\* secret returns exactly the secret generated for (user, kind) at
\* provisioning; and every key a record handler answers with is the secret
\* provisioned for its (user, kind).
C1_UnwrapReturnsProvisioned ==
    /\ \A t \in issued, s \in provisioned :
          (untouched(t) /\ s.user_id = t.user_id /\ read_by(t, s.used_for))
            => decrypt_local_token_for(t.user_id, s.used_for, t.token_id, t.token)
                 = Ok(s.local_token)
    /\ (last.op = "get" /\ last.status = OK)
          => \E s \in provisioned :
                /\ s.user_id = last.user_id
                /\ s.used_for = last.used_for
                /\ s.local_token = last.body

\* C1 witness: a record handler has unwrapped, with a returned bearer token,
\* the secret provisioned for its kind
C1_Witness ==
    /\ last.op = "get"
    /\ last.status = OK
    /\ \E t \in issued, s \in provisioned :
          /\ t.token_id = last.token_id
          /\ s.user_id = t.user_id
          /\ s.used_for = last.used_for
          /\ read_by(t, s.used_for)
          /\ last.body = s.local_token

\* C1 as stated, for every kind provisioned by the time of the call: refuted
\* by a Login that reads the user's LocalTokens while Register is still
\* provisioning them
C1_AsStated ==
    \A t \in issued, s \in provisioned :
       (untouched(t) /\ s.user_id = t.user_id)
         => decrypt_local_token_for(t.user_id, s.used_for, t.token_id, t.token)
              = Ok(s.local_token)

(***************************************************************************)
(* C2                                                                      *)
(***************************************************************************)
\* a step puts a row into remote_token or rtcrypt_local_token
inserts_session_rows ==
    \/ remote_token' \ remote_token # {}
    \/ BagToSet(rtcrypt_local_token') \ BagToSet(rtcrypt_local_token) # {}

\* C2: a Login with an existing username and a wrong password leaves the
\* store as it was and answers as a Login with an unknown username does
\* (UNAUTHORIZED, empty body); a Login goes on to create_remote_token only
\* with the password the user's hash was made of, and rows are put into
\* remote_token and rtcrypt_local_token only by a create_remote_token in
\* flight.
C2_WrongPasswordLogin ==
    [][ /\ (last'.op = "login" /\ last'.status = UNAUTHORIZED)
              => (UNCHANGED tables /\ proc' = proc /\ UNCHANGED history)
        /\ (last'.op = "login" /\ last'.err = "wrong password")
              => [last' EXCEPT !.err = "no user"]
                   = [Answer("login", UNAUTHORIZED, "no user", <<>>)
                        EXCEPT !.hashes = Len(<<hash_password(<<>>)>>)]
        /\ \A r \in InFlight' :
              r.op = "login"
                => \E u \in user' :
                      u.id = r.user_id /\ u.password_hash = hash_password(r.password)
        /\ inserts_session_rows
              => \E r \in InFlight :
                    /\ r.pc \in {"crt_new_remote_token", "crt_rewrap"}
                    /\ r.op \in {"login", "register"}
      ]_vars

\* C2 witness: a Login for a registered user was answered after a wrong password
C2_Witness ==
    /\ last.op = "login"
    /\ last.err = "wrong password"
    /\ last.status = UNAUTHORIZED
    /\ \E u \in user, password \in Passwords :
          u.password_hash # hash_password(password)

(***************************************************************************)
(* C3                                                                      *)
(***************************************************************************)
\* C3: once a Logout of a session has answered Ok, the store holds neither the
\* session's remote_token row nor a wrapped row of it, verify_token answers
\* "Invalid Token" to every header that names the session, whatever secret it
\* carries, decrypt_local_token_for returns no key for it, and the only
\* handler that still answers Ok for the session is a Logout that had
\* verified before.
C3_AfterLogout ==
    \A id \in logged_out :
       /\ ~get_remote_token(id).ok
       /\ wrapped_for(id) = {}
       /\ \A h \in AuthHeaders :
             named_token_id(h) = id => verify_token(h).result = "Invalid Token"
       /\ \A t \in issued, i \in 1..Len(get_db_idents) :
             t.token_id = id
               => ~decrypt_local_token_for(t.user_id, get_db_idents[i], id, t.token).ok
       /\ (last.token_id = id /\ last.status = OK) => last.op = "logout"

\* C3 witness: after a Logout answered Ok, a verify-token request that names
\* the session was answered UNAUTHORIZED
C3_Witness ==
    /\ last.op = "verify"
    /\ last.token_id \in logged_out
    /\ last.status = UNAUTHORIZED
    /\ last.err = "Invalid Token"

(***************************************************************************)
(* C4                                                                      *)
(***************************************************************************)
\* the handler at frame r takes a step in which no store call fails
steps(r) ==
    /\ r \in InFlight
    /\ CopiesIn(r, proc') < CopiesIn(r, proc)
    /\ fails' = fails

\* the headers that name session remote_token_id, with every secret a client
\* can put in them
headers_naming(remote_token_id) ==
    {Some(Bearer(bearer_token(remote_token_id, secret))) :
        secret \in {t.token : t \in issued} \cup {Forged}}

\* verify_token answers "Token expired" whatever the secret when the session
\* named has expired, and "Invalid Token" when a session revoked has no row
expired_or_gone_fails ==
    /\ \A rt \in remote_token :
          token_expired(rt)
            => \A h \in headers_naming(rt.id) : verify_token(h).result = "Token expired"
    /\ \A id \in revoked :
          ~get_remote_token(id).ok
            => \A h \in headers_naming(id) : verify_token(h).result = "Invalid Token"

\* C4: verify_token fails with "Token expired" for every header that names a
\* session whose valid_until has passed; the request then runs the cascade,
\* whose first delete leaves no wrapped row of the session and whose second
\* leaves no remote_token row of it, and is answered UNAUTHORIZED; a header
\* that names the session again is answered "Invalid Token" in a step that
\* changes no table.
C4_ExpiredIsPurged ==
    /\ []expired_or_gone_fails
    /\ [][ /\ \A r \in InFlight' \ InFlight :
                 (r.pc = "inv_del_rtcrypt" /\ ~r.verified)
                   => \E rt \in remote_token :
                         rt.id = r.token_id /\ token_expired(rt)
           /\ \A r \in InFlight :
                 (r.pc = "inv_del_rtcrypt" /\ ~r.verified /\ steps(r))
                   => /\ wrapped_for(r.token_id)' = {}
                      /\ \E q \in InFlight' :
                            q.pc = "inv_del_remote_token" /\ q.token_id = r.token_id
           /\ \A r \in InFlight :
                 (r.pc = "inv_del_remote_token" /\ ~r.verified /\ steps(r))
                   => /\ ~get_remote_token(r.token_id).ok'
                      /\ last'.status = UNAUTHORIZED
                      /\ last'.err = "Token expired"
                      /\ last'.token_id = r.token_id
           /\ last'.err = "Invalid Token"
                 => (last'.status = UNAUTHORIZED /\ UNCHANGED tables /\ proc' = proc)
          ]_vars

\* C4 witness: after the purge of an expired session that a client held the
\* token of, a request naming the session again was answered "Invalid Token"
C4_Witness ==
    /\ last.err = "Invalid Token"
    /\ last.token_id \in revoked \ logged_out
    /\ \E t \in issued : t.token_id = last.token_id /\ now >= TOKEN_EXPIRE
    /\ ~get_remote_token(last.token_id).ok
    /\ wrapped_for(last.token_id) = {}

(***************************************************************************)
(* C5                                                                      *)
(***************************************************************************)
\* the LocalToken row ids of a user
local_tokens_of(user_id) ==
    {lt.id : lt \in {x \in pwcrypt_local_token : x.user_id = user_id}}

\* C5: any two bearer tokens returned differ in session id and in secret;
\* every returned token whose session no revocation has touched has its own
\* remote_token row, holding its user and the hash of its secret, and a wrapped
\* row under its own secret for each LocalToken row its login read and for no
\* other, and verify_token accepts it until it expires, whatever happened to
\* any other session; a Register's session wraps all LocalTokens of the user;
\* and a Login or Register ends in INTERNAL_SERVER_ERROR only when a store
\* call failed.
C5_IndependentSessions ==
    /\ \A t1, t2 \in issued :
          t1 # t2 => (t1.token_id # t2.token_id /\ t1.token # t2.token)
    /\ \A t \in issued :
          untouched(t)
            => /\ \E rt \in remote_token :
                     /\ rt.id = t.token_id
                     /\ rt.user_id = t.user_id
                     /\ rt.rt_hash = hash_password(t.token)
                     /\ ~token_expired(rt)
                          => verify_token(header_of(t))
                               = [result |-> "Ok", user_id |-> t.user_id,
                                  token_id |-> t.token_id, token |-> t.token]
               /\ wrapped_for(t.token_id) = t.read
               /\ \A x \in BagToSet(rtcrypt_local_token) :
                     x.decrypt_by_rt_id = t.token_id
                       => (x.local_token.under = t.token /\ rtcrypt_local_token[x] = 1)
               /\ t.read \subseteq local_tokens_of(t.user_id)
               /\ t.by = "register" => t.read = local_tokens_of(t.user_id)
    /\ (last.op \in {"login", "register"} /\ last.status = INTERNAL_SERVER_ERROR)
          => (last.err = "store" /\ fails > 0)

\* C5 witness: two Logins of one user overlapped (the session created first
\* was returned last), both returned a token, neither session has been
\* revoked, each has its wrapped rows, and verify_token accepts both
C5_Witness ==
    \E t1, t2 \in issued :
       /\ t1.by = "login" /\ t2.by = "login"
       /\ t1.user_id = t2.user_id
       /\ t1.token_id < t2.token_id
       /\ last.op = "login" /\ last.status = OK /\ last.token_id = t1.token_id
       /\ untouched(t1) /\ untouched(t2)
       /\ t1.read # {} /\ wrapped_for(t1.token_id) = t1.read
       /\ wrapped_for(t2.token_id) = t2.read
       /\ verify_token(header_of(t1)).result = "Ok"
       /\ verify_token(header_of(t2)).result = "Ok"

(***************************************************************************)
(* C6                                                                      *)
(***************************************************************************)
\* the rows of sessions other than remote_token_id
other_sessions(remote_token_id) ==
    <<{rt \in remote_token : rt.id # remote_token_id},
      [x \in {y \in BagToSet(rtcrypt_local_token) :
                 y.decrypt_by_rt_id # remote_token_id} |-> rtcrypt_local_token[x]]>>

\* what verify_token, from its store call on, and decrypt_local_token_for
\* return for bearer token t
results_for(t) ==
    <<check_remote_token(t.token_id, t.token),
      [i \in 1..Len(get_db_idents) |->
          decrypt_local_token_for(t.user_id, get_db_idents[i], t.token_id, t.token)]>>

\* a step takes a row out of remote_token or rtcrypt_local_token
deletes_session_rows ==
    \/ remote_token \ remote_token' # {}
    \/ \E x \in BagToSet(rtcrypt_local_token) :
          CopiesIn(x, rtcrypt_local_token') < CopiesIn(x, rtcrypt_local_token)

\* C6: every step of a revocation of session S, by Logout or by the expiry
\* purge, leaves the user rows, the LocalToken rows and the rows of every
\* session other than S as they were, and with them what verify_token and
\* decrypt_local_token_for return for every other bearer token; and no step
\* but a revocation's takes a session row or a wrapped row away.
C6_RevocationFrame ==
    /\ [](\A t \in issued :
            verify_token(header_of(t)) = check_remote_token(t.token_id, t.token))
    /\ [][ /\ \A r \in InFlight :
                 (r.pc \in {"inv_del_rtcrypt", "inv_del_remote_token"} /\ steps(r))
                   => /\ UNCHANGED <<user, pwcrypt_local_token, sqlite_sequence>>
                      /\ other_sessions(r.token_id)' = other_sessions(r.token_id)
                      /\ \A t \in issued :
                            t.token_id # r.token_id
                              => results_for(t)' = results_for(t)
           /\ deletes_session_rows
                 => \E r \in InFlight :
                       /\ r.pc \in {"inv_del_rtcrypt", "inv_del_remote_token"}
                       /\ steps(r)
          ]_vars

\* C6 witness: a Logout of one session has answered Ok while another session
\* has its rows, verifies and unwraps
C6_Witness ==
    /\ last.op = "logout"
    /\ last.status = OK
    /\ last.token_id \in logged_out
    /\ \E t \in issued :
          /\ t.token_id # last.token_id
          /\ untouched(t)
          /\ t.read # {}
          /\ wrapped_for(t.token_id) = t.read
          /\ verify_token(header_of(t)).result = "Ok"
          /\ \E s \in provisioned :
                decrypt_local_token_for(t.user_id, s.used_for, t.token_id, t.token)
                  = Ok(s.local_token)

(***************************************************************************)
(* C7                                                                      *)
(***************************************************************************)
\* C7: in every state during or after a revocation of session S, if the
\* remote_token row of S is gone then no wrapped row of S exists.
C7_NoWrappedRowWithoutSession ==
    \A id \in revoked :
       ~get_remote_token(id).ok => wrapped_for(id) = {}

(***************************************************************************)
(* C8                                                                      *)
(***************************************************************************)
\* C8: a record handler never answers with a key unwrapped for a session
\* whose valid_until the clock has reached.
C8_NoUnwrapAfterExpiry ==
    (last.op = "get" /\ last.status = OK)
      => \A rt \in remote_token :
            rt.id = last.token_id => now < rt.valid_until

(***************************************************************************)
(* C9                                                                      *)
(***************************************************************************)
\* header h is malformed, names a session id without a row, or names a
\* session that has not expired with a secret other than the session's
unauthentic(h) ==
    IF ~h.some THEN TRUE
    ELSE LET parsed == split_auth_header(h.val)
         IN IF ~parsed.ok THEN TRUE
            ELSE LET rt == get_remote_token(parsed.val.token_id)
                 IN IF ~rt.ok THEN TRUE
                    ELSE /\ ~token_expired(rt.val)
                         /\ rt.val.rt_hash # hash_password(parsed.val.token)

\* C9: verify_token answers "Invalid Token" to every header that is
\* malformed, names an unknown session id or carries a wrong secret for a
\* session that has not expired; a Logout so answered returns UNAUTHORIZED in
\* a step that changes no table; and a Logout enters the cascade as verified
\* only while holding the secret that was returned for the session it
\* revokes.
C9_LogoutNeedsVerifiedBearer ==
    /\ [](\A h \in AuthHeaders :
            unauthentic(h) => verify_token(h).result = "Invalid Token")
    /\ [][ /\ (last'.op = "logout" /\ last'.err = "Invalid Token")
                 => /\ last'.status = UNAUTHORIZED
                    /\ UNCHANGED tables
                    /\ proc' = proc
           /\ \A r \in InFlight' \ InFlight :
                 (r.op = "logout" /\ r.verified /\ r.pc = "inv_del_rtcrypt")
                   => /\ check_remote_token(r.token_id, r.token).result = "Ok"
                      /\ \E t \in issued :
                            t.token_id = r.token_id /\ t.token = r.token
           /\ \A r \in InFlight' :
                 (r.op = "logout" /\ r.verified)
                   => \E t \in issued : t.token_id = r.token_id /\ t.token = r.token
          ]_vars

\* C9 witness: a Logout that named a session that has its row and has not
\* expired was answered UNAUTHORIZED for its secret, and the session still
\* has its rows
C9_Witness ==
    /\ last.op = "logout"
    /\ last.err = "Invalid Token"
    /\ last.status = UNAUTHORIZED
    /\ \E t \in issued, rt \in remote_token :
          /\ rt.id = last.token_id
          /\ t.token_id = rt.id
          /\ ~token_expired(rt)
          /\ t.read # {}
          /\ wrapped_for(rt.id) = t.read

(***************************************************************************)
(* C10                                                                     *)
(***************************************************************************)
\* C10: when a Login has finished, with a token or with
\* INTERNAL_SERVER_ERROR, and the remote_token row it inserted is in the
\* store, the wrapped rows of that session are those of all LocalToken rows
\* the login read or none.
C10_AllOrNone ==
    (last.op = "login" /\ last.token_id # 0 /\ get_remote_token(last.token_id).ok)
      => wrapped_for(last.token_id) \in {{}, last.read}

(***************************************************************************)
(* C11                                                                     *)
(***************************************************************************)
\* the record kinds
db_idents == {get_db_idents[i] : i \in 1..Len(get_db_idents)}

\* the kinds a user has a LocalToken row of
kinds_of(user_id) ==
    {lt.used_for : lt \in {x \in pwcrypt_local_token : x.user_id = user_id}}

\* the kinds a Register in flight for the user has yet to provision
pending_kinds(user_id) ==
    UNION {{r.kinds[i] : i \in 1..Len(r.kinds)} :
              r \in {q \in InFlight : q.pc = "reg_local_tokens" /\ q.user_id = user_id}}

\* the kinds a user's Register has passed without a LocalToken row
missing_kinds(user_id) == (db_idents \ kinds_of(user_id)) \ pending_kinds(user_id)

\* a kind is missing only where a store call failed; a Register whose only
\* failed store calls were those of its missing kinds answers with a token;
\* the session of a Register unwraps no key for a missing kind and the
\* provisioned secret for every other
register_tolerates_missing ==
    /\ \A u \in user : Cardinality(missing_kinds(u.id)) <= fails
    /\ (/\ last.op = "register"
        /\ last.user_id # 0
        /\ Cardinality(missing_kinds(last.user_id)) = fails)
          => (last.status = OK /\ \E t \in issued : t.token_id = last.token_id)
    /\ \A t \in issued :
          (t.by = "register" /\ untouched(t))
            => \A k \in db_idents \ pending_kinds(t.user_id) :
                  LET key == decrypt_local_token_for(t.user_id, k, t.token_id, t.token)
                  IN IF k \in missing_kinds(t.user_id)
                     THEN key = Err
                     ELSE \E s \in provisioned :
                             /\ s.user_id = t.user_id
                             /\ s.used_for = k
                             /\ key = Ok(s.local_token)

\* C11: a failure of add_new_local_token for one kind answers nothing and
\* changes no table, and Register goes on to the next kind or, after the
\* last, to create_remote_token; Register answers INTERNAL_SERVER_ERROR only
\* from create_remote_token; a Register all of whose failed store calls were
\* provisioning failures returns a token; and decrypt_local_token_for with
\* that session returns an error for each kind left without a LocalToken and
\* the provisioned secret for each other kind.
C11_PartialProvisioning ==
    /\ []register_tolerates_missing
    /\ [][ /\ \A r \in InFlight :
                 (r.pc = "reg_local_tokens" /\ CopiesIn(r, proc') < CopiesIn(r, proc))
                   => /\ last' = NoAnswer
                      /\ fails' > fails => UNCHANGED tables
                      /\ \E q \in InFlight' :
                            /\ q.op = "register"
                            /\ q.user_id = r.user_id
                            /\ q.kinds = Tail(r.kinds)
                            /\ q.pc = IF q.kinds = <<>> THEN "crt_new_remote_token"
                                      ELSE "reg_local_tokens"
           /\ (last'.op = "register" /\ last'.status = INTERNAL_SERVER_ERROR)
                 => \E r \in InFlight :
                       /\ r.op = "register"
                       /\ r.pc \in {"crt_new_remote_token", "crt_get_local_tokens",
                                    "crt_rewrap"}
                       /\ CopiesIn(r, proc') < CopiesIn(r, proc)
          ]_vars

\* C11 witness: a Register that failed to provision one kind and provisioned
\* another returned a token, and a record request with that token for the
\* missing kind was answered INTERNAL_SERVER_ERROR for want of a key
C11_Witness ==
    /\ last.op = "get"
    /\ last.status = INTERNAL_SERVER_ERROR
    /\ last.err = "no key"
    /\ last.used_for \in missing_kinds(last.user_id)
    /\ kinds_of(last.user_id) # {}
    /\ \E t \in issued :
          /\ t.by = "register"
          /\ t.token_id = last.token_id
          /\ t.user_id = last.user_id
          /\ untouched(t)
          /\ t.read # {}

(***************************************************************************)
(* C12                                                                     *)
(***************************************************************************)
\* the usernames clients register
registered_names == {reg[1] : reg \in Registrations}

\* a Register has just got past new_user: its frame is new and has all its
\* kinds to provision
past_new_user ==
    {r \in InFlight' \ InFlight : r.pc = "reg_local_tokens" /\ r.kinds = get_db_idents}

\* C12: in every state at most one user row has a given username, also while
\* Registers of one username overlap; a Register answered CONFLICT changes no
\* table and starts nothing; a user row is inserted only for a username no
\* row has; and while every username clients register is taken, no Register
\* gets past new_user.
C12_UsernameTaken ==
    /\ [](\A u1, u2 \in user : u1.username = u2.username => u1 = u2)
    /\ [][ /\ (last'.op = "register" /\ last'.status = CONFLICT)
                 => (UNCHANGED tables /\ proc' = proc /\ UNCHANGED history)
           /\ \A u \in user' \ user : \A v \in user : v.username # u.username
           /\ (\A name \in registered_names : \E u \in user : u.username = name)
                 => (past_new_user = {} /\ user' = user)
          ]_vars

\* C12 witness: a Register of a username that has a row was answered CONFLICT
\* with no store call failed, while the Register that inserted the row was
\* still in flight
C12_Witness ==
    /\ last.op = "register"
    /\ last.status = CONFLICT
    /\ fails = 0
    /\ \E u \in user, r \in InFlight :
          /\ u.username \in registered_names
          /\ r.op = "register"
          /\ r.user_id = u.id
    /\ Cardinality(user) = 1
    /\ pwcrypt_local_token = {}
    /\ remote_token = {}
    /\ entries = {}
    /\ rtcrypt_local_token = EmptyBag

(***************************************************************************)
(* C13                                                                     *)
(***************************************************************************)
\* C13: Register answers CONFLICT only when a user row with the username
\* exists.
C13_ConflictOnlyWhenTaken ==
    (last.op = "register" /\ last.status = CONFLICT)
      => \E u \in user : u.username \in registered_names

(***************************************************************************)
(* C14                                                                     *)
(***************************************************************************)
\* Register or Login has just answered with a token
token_returned == last.op \in {"login", "register"} /\ last.status = OK

\* the header a client makes of the answer it has just got
header_of_answer == Some(Bearer(last.body))

\* C14, as amended: in the state right after Register or Login has answered
\* with a token, the header "Bearer " + token parses to the id of the
\* remote_token row that call inserted and to the secret it generated; if the
\* clock has not reached the valid_until of that row, verify_token on the
\* header returns Ok with the user's id, that row id and that secret; and the
\* row is gone only when the clock reached its valid_until during the call
\* and the expiry purge ran.
C14_ReturnedTokenVerifies ==
    token_returned
      => \E t \in issued :
            /\ t.token_id = last.token_id
            /\ t.user_id = last.user_id
            /\ \E u \in user : u.id = t.user_id
            /\ sqlite_sequence.remote_token >= t.token_id
            /\ split_auth_header(header_of_answer.val)
                 = Ok([token_id |-> t.token_id, token |-> t.token])
            /\ LET rt == get_remote_token(t.token_id)
               IN IF rt.ok
                  THEN /\ rt.val.rt_hash = hash_password(t.token)
                       /\ rt.val.user_id = t.user_id
                       /\ ~token_expired(rt.val)
                            => verify_token(header_of_answer)
                                 = [result |-> "Ok", user_id |-> t.user_id,
                                    token_id |-> t.token_id, token |-> t.token]
                  ELSE /\ t.token_id \in revoked \ logged_out
                       /\ now >= TOKEN_EXPIRE

\* C14 witness: Login has just answered with a token and verify_token on
\* "Bearer " + token returns Ok with the triple
C14_Witness ==
    /\ token_returned
    /\ last.op = "login"
    /\ \E t \in issued :
          /\ t.token_id = last.token_id
          /\ verify_token(header_of_answer)
               = [result |-> "Ok", user_id |-> last.user_id,
                  token_id |-> last.token_id, token |-> t.token]

\* C14 as stated, for every successful Register or Login: refuted by a call
\* during which the clock reaches the valid_until of the session it creates
C14_AsStated ==
    token_returned => verify_token(header_of_answer).result = "Ok"

(***************************************************************************)
(* add_new_local_token as an operation of its own (it is pub and takes any *)
(* user id): the spec's Provision.  No route calls it outside              *)
(* handle_register, so the program with it is a specification of its own:  *)
(* the routes that write or read local tokens and sessions, at one instant *)
(* of the clock, and Provision between any two of their store calls.       *)
(***************************************************************************)
\* add_new_local_token for a user that exists, with the password its caller
\* passes: generate_token, encrypt under the password, new_local_token_pwcrypt
Provision ==
    /\ Quiet
    /\ sqlite_sequence.pwcrypt_local_token < MaxLocalTokens
    /\ \E u \in user, password \in Passwords, used_for \in db_idents :
          LET local_token == generate_token
              row == new_local_token_pwcrypt(u.id, password, used_for, local_token)
          IN \/ /\ StoreFails
                /\ UNCHANGED <<pwcrypt_local_token, sqlite_sequence, provisioned>>
             \/ /\ pwcrypt_local_token' = pwcrypt_local_token \cup {row}
                /\ sqlite_sequence' =
                     [sqlite_sequence EXCEPT !.pwcrypt_local_token = row.id]
                /\ provisioned' = provisioned \cup
                     {[by |-> "provision", user_id |-> u.id, used_for |-> used_for,
                       local_token |-> local_token]}
                /\ UNCHANGED fails
    /\ last' = NoAnswer
    /\ UNCHANGED <<entries, user, rtcrypt_local_token, remote_token, now, proc,
                   issued, revoked, logged_out>>

NextProvision ==
    \/ handle_register
    \/ handle_login
    \/ handle_logout
    \/ handle_get
    \/ \E r \in InFlight : reg_local_tokens(r)
    \/ \E r \in InFlight : crt_new_remote_token(r)
    \/ \E r \in InFlight : crt_get_local_tokens(r)
    \/ \E r \in InFlight : crt_rewrap(r)
    \/ \E r \in InFlight : inv_del_rtcrypt(r)
    \/ \E r \in InFlight : inv_del_remote_token(r)
    \/ \E r \in InFlight : dlt_decrypt(r)
    \/ respond
    \/ Provision

SpecProvision == Init /\ [][NextProvision]_vars

(***************************************************************************)
(* C15                                                                     *)
(***************************************************************************)
\* C15: the store holds at most one LocalToken row per (user, kind).
C15_OneLocalTokenPerKind ==
    \A lt1, lt2 \in pwcrypt_local_token :
       (lt1.user_id = lt2.user_id /\ lt1.used_for = lt2.used_for) => lt1 = lt2

(***************************************************************************)
(* C16                                                                     *)
(***************************************************************************)
\* session remote_token_id has no wrapped row of the LocalToken row that
\* decrypt_local_token_for reads for (user, kind)
no_wrapped_row(user_id, used_for, remote_token_id) ==
    LET lt == get_local_token_by_used_for_pwcrypt(user_id, used_for)
    IN lt.ok /\ lt.val.id \notin wrapped_for(remote_token_id)

\* decrypt_local_token_for returns an error, for every session, user, kind
\* and secret, when the wrapped row or the LocalToken row is missing
missing_row_is_error ==
    \A t \in issued, k \in db_idents :
       (\/ no_wrapped_row(t.user_id, k, t.token_id)
        \/ ~get_local_token_by_used_for_pwcrypt(t.user_id, k).ok)
         => \A secret \in {t.token, Forged} :
               decrypt_local_token_for(t.user_id, k, t.token_id, secret) = Err

\* C16: decrypt_local_token_for returns an error whenever the wrapped row of
\* (local token, session) is missing, as it is for a kind provisioned after
\* the Login read the user's LocalTokens; the record handler that meets the
\* missing row answers INTERNAL_SERVER_ERROR, changes no table and leaves its
\* worker free; and a record handler answers with a key only when the wrapped
\* row is there.
C16_MissingWrappedRow ==
    /\ []missing_row_is_error
    /\ [][ /\ \A r \in InFlight :
                 (/\ r.pc = "dlt_decrypt"
                  /\ steps(r)
                  /\ no_wrapped_row(r.user_id, r.used_for, r.token_id))
                   => /\ last' = [Answer("get", INTERNAL_SERVER_ERROR, "no key", <<>>)
                                     EXCEPT !.user_id = r.user_id,
                                            !.token_id = r.token_id,
                                            !.used_for = r.used_for]
                      /\ UNCHANGED tables
                      /\ proc' = proc (-) SetToBag({r})
           /\ (last'.op = "get" /\ last'.status = OK)
                 => ~no_wrapped_row(last'.user_id, last'.used_for, last'.token_id)
          ]_vars

\* C16 witness: a record request with the token of a Login was answered
\* INTERNAL_SERVER_ERROR for want of a key, for a kind whose LocalToken row a
\* Provision call inserted after that Login had read the user's rows
C16_Witness ==
    /\ last.op = "get"
    /\ last.status = INTERNAL_SERVER_ERROR
    /\ last.err = "no key"
    /\ no_wrapped_row(last.user_id, last.used_for, last.token_id)
    /\ \E t \in issued, s \in provisioned :
          /\ t.by = "login"
          /\ t.token_id = last.token_id
          /\ t.read # {}
          /\ wrapped_for(t.token_id) = t.read
          /\ s.by = "provision"
          /\ s.user_id = last.user_id
          /\ s.used_for = last.used_for
          /\ get_local_token_by_used_for_pwcrypt(s.user_id, s.used_for).val.local_token.data_crypt
               = s.local_token

(***************************************************************************)
(* C17                                                                     *)
(***************************************************************************)
\* header h is exactly "Bearer " + decimal digits + "_" + a secret without "_"
exact_bearer(h) ==
    /\ h.some
    /\ Len(h.val) >= 4
    /\ h.val[1] = "Bearer "
    /\ \E i \in 3..(Len(h.val) - 1) :
          /\ h.val[i] = "_"
          /\ \A j \in 2..(i - 1) : IsDigit(h.val[j])
          /\ \A j \in (i + 1)..Len(h.val) : h.val[j] # "_"

\* C17: verify_token succeeds for no Authorization value that is not exactly
\* "Bearer " + decimal session id + "_" + secret.
C17_OnlyExactBearerVerifies ==
    \A h \in AuthHeaders :
       ~exact_bearer(h) => verify_token(h).result # "Ok"

(***************************************************************************)
(* The clock around the end of a session's life: Register, Login and       *)
(* verify-token with the wall clock read a day after the start and a day   *)
(* before, at, and a day after TOKEN_EXPIRE days, and no Logout.           *)
(***************************************************************************)
\* the instants the wall clock is read at, in days
ClockInstants == {0, 1, TOKEN_EXPIRE - 1, TOKEN_EXPIRE, TOKEN_EXPIRE + 1}

\* the wall clock moves on to a later instant
TickTo ==
    /\ Quiet
    /\ \E t \in ClockInstants :
          /\ t > now
          /\ now' = t
    /\ last' = NoAnswer
    /\ UNCHANGED <<tables, fails, proc, history>>

NextClock ==
    \/ handle_register
    \/ handle_login
    \/ handle_verify
    \/ \E r \in InFlight : reg_local_tokens(r)
    \/ \E r \in InFlight : crt_new_remote_token(r)
    \/ \E r \in InFlight : crt_get_local_tokens(r)
    \/ \E r \in InFlight : crt_rewrap(r)
    \/ \E r \in InFlight : inv_del_rtcrypt(r)
    \/ \E r \in InFlight : inv_del_remote_token(r)
    \/ respond
    \/ TickTo

SpecClock == Init /\ [][NextClock]_vars


(***************************************************************************)
(* C18                                                                     *)
(***************************************************************************)
\* what verify_token returns for the header of a returned token: Ok with the
\* triple while the clock is before the valid_until of the session's row, an
\* error from that instant on, and an error once the row is gone
session_window ==
    \A t \in issued :
       LET rt == get_remote_token(t.token_id)
           verified == verify_token(header_of(t))
       IN IF rt.ok
          THEN IF now < rt.val.valid_until
               THEN verified = [result |-> "Ok", user_id |-> t.user_id,
                                token_id |-> t.token_id, token |-> t.token]
               ELSE verified = [result |-> "Token expired", token_id |-> t.token_id]
          ELSE /\ verified = [result |-> "Invalid Token"]
               /\ t.token_id \in revoked

\* C18: a remote_token row is inserted with valid_until = now + TOKEN_EXPIRE;
\* with no Logout, a row is deleted only when the clock has reached its
\* valid_until; in every state verify_token accepts the header of a returned
\* token exactly while now < valid_until and fails from now = valid_until
\* on; and verify-token answers Ok only inside [valid_until - TOKEN_EXPIRE,
\* valid_until) and UNAUTHORIZED for a session at or past valid_until.
C18_SessionLifetime ==
    /\ []session_window
    /\ [][ /\ \A rt \in remote_token' \ remote_token :
                 rt.valid_until = now + TOKEN_EXPIRE /\ now' = now
           /\ \A rt \in remote_token \ remote_token' : rt.valid_until <= now
           /\ (last'.op = "verify" /\ last'.status = OK)
                 => \E rt \in remote_token :
                       /\ rt.id = last'.token_id
                       /\ rt.valid_until - TOKEN_EXPIRE <= now
                       /\ now < rt.valid_until
           /\ \A rt \in remote_token :
                 (last'.op = "verify" /\ last'.token_id = rt.id /\ rt.valid_until <= now)
                   => last'.status = UNAUTHORIZED
          ]_vars

\* C18 witness: verify-token has answered Ok for a session one day before its
\* valid_until, at the very instant that is the valid_until of another
\* session, whose row is still there and whose header verify_token rejects
C18_Witness ==
    /\ last.op = "verify"
    /\ last.status = OK
    /\ \E rt \in remote_token :
          /\ rt.id = last.token_id
          /\ now = rt.valid_until - 1
          /\ now > rt.valid_until - TOKEN_EXPIRE
    /\ \E t \in issued, rt \in remote_token :
          /\ rt.id = t.token_id
          /\ rt.valid_until = now
          /\ verify_token(header_of(t)).result = "Token expired"

(***************************************************************************)
(* crypt/crypt_types.rs: the envelope types CryptString and CryptI32 over  *)
(* the provider's encrypt and decrypt.  A string is the sequence of its    *)
(* chars (code points), bytes are numbers 0..255.                          *)
(***************************************************************************)
\* char::encode_utf8, for chars up to three bytes
encode_utf8(c) ==
    IF c < 128 THEN <<c>>
    ELSE IF c < 2048 THEN <<192 + (c \div 64), 128 + (c % 64)>>
    ELSE <<224 + (c \div 4096), 128 + ((c \div 64) % 64), 128 + (c % 64)>>

\* String::as_bytes
RECURSIVE as_bytes(_)
as_bytes(s) ==
    IF s = <<>> THEN <<>>
    ELSE encode_utf8(Head(s)) \o as_bytes(Tail(s))

\* a UTF-8 continuation byte
is_continuation(b) == 128 <= b /\ b <= 191

\* the error of String::from_utf8, boxed by '?'
FromUtf8Error == [ok |-> FALSE, err |-> "FromUtf8Error"]

\* String::from_utf8 on bytes of chars up to three bytes: the chars, or
\* FromUtf8Error at a byte that starts no well-formed sequence
RECURSIVE from_utf8(_, _)
from_utf8(bytes, chars) ==
    IF bytes = <<>> THEN Ok(chars)
    ELSE LET b == bytes[1]
         IN IF b < 128
            THEN from_utf8(Tail(bytes), Append(chars, b))
            ELSE IF 194 <= b /\ b <= 223 /\ Len(bytes) >= 2 /\ is_continuation(bytes[2])
            THEN from_utf8(SubSeq(bytes, 3, Len(bytes)),
                           Append(chars, (b - 192) * 64 + (bytes[2] - 128)))
            ELSE IF /\ 224 <= b /\ b <= 239 /\ Len(bytes) >= 3
                    /\ is_continuation(bytes[2]) /\ is_continuation(bytes[3])
                    /\ (b = 224 => bytes[2] >= 160)
                    /\ (b = 237 => bytes[2] <= 159)
            THEN from_utf8(SubSeq(bytes, 4, Len(bytes)),
                           Append(chars, (b - 224) * 4096 + (bytes[2] - 128) * 64
                                           + (bytes[3] - 128)))
            ELSE FromUtf8Error

\* i32::to_be_bytes: the four bytes of the two's complement, high byte first
to_be_bytes(n) ==
    LET low == IF n < 0 THEN (n + 2147483647) + 1 ELSE n
        sign == IF n < 0 THEN 128 ELSE 0
    IN <<sign + (low \div 16777216), (low \div 65536) % 256, (low \div 256) % 256,
         low % 256>>

\* a conversion that drops the sign bit: what C19 must tell apart
from_be_bytes_unsigned(arr) ==
    (arr[1] % 128) * 16777216 + arr[2] * 65536 + arr[3] * 256 + arr[4]

\* i32::from_be_bytes
from_be_bytes(arr) ==
    LET low == (arr[1] % 128) * 16777216 + arr[2] * 65536 + arr[3] * 256 + arr[4]
    IN IF arr[1] >= 128 THEN (low - 2147483647) - 1 ELSE low

\* the thread panics with this message
Panic(msg) == [panic |-> msg]

\* CryptString::encrypt
CryptString_encrypt(data, key) == encrypt(as_bytes(data), key)

\* CryptString::decrypt: the provider's error, or String::from_utf8's
CryptString_decrypt(crypt, key) ==
    LET data == decrypt(crypt, key)
    IN IF data.ok THEN from_utf8(data.val, <<>>) ELSE data

\* CryptI32::encrypt
CryptI32_encrypt(data, key) == encrypt(to_be_bytes(data), key)

\* CryptI32::decrypt: the provider's error; try_into::<[u8; 4]>().expect(..)
\* panics on any other length
CryptI32_decrypt(crypt, key) ==
    LET data == decrypt(crypt, key)
    IN IF ~data.ok THEN data
       ELSE IF Len(data.val) # 4
       THEN Panic("DB data corrupted, tried to decrypt but got wrong format.")
       ELSE Ok(from_be_bytes(data.val))

\* the envelope types
Cryptables == {"CryptString", "CryptI32"}

\* Cryptable::encrypt of type ty
Cryptable_encrypt(ty, data, key) ==
    IF ty = "CryptString" THEN CryptString_encrypt(data, key)
    ELSE CryptI32_encrypt(data, key)

\* Cryptable::decrypt of type ty
Cryptable_decrypt(ty, crypt, key) ==
    IF ty = "CryptString" THEN CryptString_decrypt(crypt, key)
    ELSE CryptI32_decrypt(crypt, key)

\* the strings put into envelopes: "", "a", "e" with acute, the euro sign,
\* and a string of two chars
StringValues == {<<>>, <<97>>, <<233>>, <<8364>>, <<97, 233>>}

\* the integers put into envelopes, i32::MIN and i32::MAX among them
I32Values == {-2147483647 - 1, -1, 0, 1, 2147483647}

\* the values of envelope type ty
ValuesOf(ty) == IF ty = "CryptString" THEN StringValues ELSE I32Values

\* keys
CryptKeys == {<<107>>, <<107, 50>>}

\* plaintexts found under a key in place of an envelope's bytes: nothing, a
\* byte that starts no char, a char cut short, a whole char, three, four and
\* five bytes
RawBytes == {<<>>, <<255>>, <<195>>, <<195, 169>>, <<1, 2, 3>>, <<0, 0, 0, 1>>,
             <<1, 2, 3, 4, 5>>}

\* a record field in the hands of a data handler: the value to encrypt or the
\* bytes found, the key, the envelope and what decrypt returned
Field ==
    [pc |-> "", ty |-> "", from |-> "", data |-> <<>>, key |-> <<>>,
     crypt |-> <<>>, with |-> <<>>, result |-> <<>>]

\* a field of every envelope type with every value and key, and every
\* plaintext that was not made by the envelope type's encrypt
InitCrypt ==
    /\ user = {}
    /\ pwcrypt_local_token = {}
    /\ rtcrypt_local_token = EmptyBag
    /\ remote_token = {}
    /\ entries = {}
    /\ sqlite_sequence = [user |-> 0, pwcrypt_local_token |-> 0, remote_token |-> 0]
    /\ now = 0
    /\ fails = 0
    /\ last = NoAnswer
    /\ issued = {}
    /\ provisioned = {}
    /\ revoked = {}
    /\ logged_out = {}
    /\ \E ty \in Cryptables, key \in CryptKeys :
          \/ \E data \in ValuesOf(ty) :
                proc = SetToBag({[Field EXCEPT !.pc = "encrypt", !.ty = ty,
                                               !.from = "value", !.data = data,
                                               !.key = key]})
          \/ \E data \in RawBytes :
                proc = SetToBag({[Field EXCEPT !.pc = "store", !.ty = ty,
                                               !.from = "bytes", !.data = data,
                                               !.key = key]})

\* Cryptable::encrypt of the field's value under its key
crypt_encrypt(r) ==
    /\ r.pc = "encrypt"
    /\ proc' = SetToBag({[r EXCEPT !.pc = "decrypt",
                                   !.crypt = Cryptable_encrypt(r.ty, r.data, r.key)]})
    /\ UNCHANGED <<tables, now, fails, last, history>>

\* bytes that were not made by the envelope type's encrypt are in the column,
\* encrypted by the provider under the field's key
crypt_store(r) ==
    /\ r.pc = "store"
    /\ proc' = SetToBag({[r EXCEPT !.pc = "decrypt", !.crypt = encrypt(r.data, r.key)]})
    /\ UNCHANGED <<tables, now, fails, last, history>>

\* Cryptable::decrypt of the field's envelope under some key
crypt_decrypt(r) ==
    /\ r.pc = "decrypt"
    /\ \E key \in CryptKeys :
          proc' = SetToBag({[r EXCEPT !.pc = "done", !.with = key,
                                      !.result = Cryptable_decrypt(r.ty, r.crypt, key)]})
    /\ UNCHANGED <<tables, now, fails, last, history>>

NextCrypt ==
    \/ \E r \in InFlight : crypt_encrypt(r)
    \/ \E r \in InFlight : crypt_store(r)
    \/ \E r \in InFlight : crypt_decrypt(r)

SpecCrypt == InitCrypt /\ [][NextCrypt]_vars

(***************************************************************************)
(* C19                                                                     *)
(***************************************************************************)
\* C19: for both envelope types, every value (the empty string and i32::MIN
\* and i32::MAX among them) and every key, decrypt of encrypt under the same
\* key returns the value, and decrypt under another key returns the
\* provider's error and no plaintext.
C19_EnvelopeRoundTrip ==
    \A r \in InFlight :
       (r.pc = "done" /\ r.from = "value")
         => IF r.with = r.key
            THEN r.result = Ok(r.data)
            ELSE r.result = Err

\* C19 witness: i32::MIN came back from its envelope under the key it was
\* encrypted with
C19_Witness ==
    \E r \in InFlight :
       /\ r.pc = "done"
       /\ r.from = "value"
       /\ r.ty = "CryptI32"
       /\ r.data = -2147483647 - 1
       /\ r.with = r.key
       /\ r.crypt = encrypt(<<128, 0, 0, 0>>, r.key)
       /\ r.result = Ok(r.data)

(***************************************************************************)
(* C20                                                                     *)
(***************************************************************************)
\* C20: decrypt of an envelope never panics: it returns a value or an error,
\* and when the provider opened the envelope and the plaintext does not
\* decode, an error other than the provider's.
C20_DecryptNeverPanics ==
    \A r \in InFlight :
       r.pc = "done"
         => /\ "ok" \in DOMAIN r.result
            /\ (r.with = r.key /\ ~r.result.ok) => r.result # Err

(***************************************************************************)
(* db_derive: the column types derive(DBObject) writes into CREATE TABLE.  *)
(***************************************************************************)
\* syn::Type, its variants a field type is written in
Type_Path(segments) == [variant |-> "Path", segments |-> segments]

\* the variants that are no path: Array, Reference, Tuple
Type_Other(variant, elems) == [variant |-> variant, elems |-> elems]

\* syn::PathSegment and its PathArguments
PathSegment(ident, arguments) == [ident |-> ident, arguments |-> arguments]

PathArguments_None == [variant |-> "None"]

AngleBracketed(args) == [variant |-> "AngleBracketed", args |-> args]

\* syn::GenericArgument
GenericArgument_Type(ty) == [variant |-> "Type", ty |-> ty]

GenericArgument_Lifetime == [variant |-> "Lifetime"]

\* syn::parse_str of a type name, of a path a::b and of a generic t<arg>
parse_str(ident) == Type_Path(<<PathSegment(ident, PathArguments_None)>>)

parse_str_qualified(outer, ty) ==
    Type_Path(<<PathSegment(outer, PathArguments_None)>> \o ty.segments)

parse_str_generic(ident, arg) ==
    Type_Path(<<PathSegment(ident, AngleBracketed(<<arg>>))>>)

\* a test for Option<T> that never finds one: what C21 must tell apart
option_inner_never(field_type) == None

\* get_sql_type, lines 230-241: the T of a type written Option<T>
option_inner(field_type) ==
    LET segments == field_type.segments
    IN IF Len(segments) = 1
          /\ segments[1].ident = "Option"
          /\ segments[1].arguments.variant = "AngleBracketed"
          /\ segments[1].arguments.args # <<>>
          /\ segments[1].arguments.args[1].variant = "Type"
       THEN Some(segments[1].arguments.args[1].ty)
       ELSE None

\* get_sql_type, lines 246-254: the column type of a type name
sql_type_of_ident(ident) ==
    CASE ident = "String" -> "TEXT"
      [] ident \in {"i32", "i64"} -> "INTEGER"
      [] ident = "f64" -> "REAL"
      [] ident = "bool" -> "INTEGER"
      [] ident = "NaiveDate" -> "DATE"
      [] ident = "NaiveDateTime" -> "DATETIME"
      [] OTHER -> "BLOB"

get_sql_type(field_type) ==
    IF field_type.variant = "Path"
    THEN LET inner == option_inner(field_type)
             check_type == IF inner.some THEN inner.val ELSE field_type
             result == IF inner.some THEN "" ELSE " NOT NULL"
         IN (IF check_type.variant = "Path"
             THEN sql_type_of_ident(
                      check_type.segments[Len(check_type.segments)].ident)
             ELSE "BLOB") \o result
    ELSE "BLOB"

\* the field types: type names, Vec<u8>, qualified names and types that are
\* no path; Option<T> of each of them, Option<Option<String>>,
\* option::Option<String>, Option without arguments and Option<'a>
FieldTypes ==
    LET TypeNames == {"String", "i32", "i64", "f64", "bool", "NaiveDate",
                      "NaiveDateTime", "TestType"}
        PlainTypes ==
            {parse_str(ident) : ident \in TypeNames}
              \cup {parse_str_generic("Vec", GenericArgument_Type(parse_str("u8"))),
                    parse_str_qualified("chrono", parse_str("NaiveDate")),
                    parse_str_qualified("string", parse_str("String")),
                    Type_Other("Array", <<parse_str("u8")>>),
                    Type_Other("Reference", <<parse_str("str")>>),
                    Type_Other("Tuple", <<parse_str("i32"), parse_str("i32")>>)}
        OptionTypes ==
            {parse_str_generic("Option", GenericArgument_Type(ty)) : ty \in PlainTypes}
              \cup {parse_str_generic("Option", GenericArgument_Type(
                        parse_str_generic("Option",
                                          GenericArgument_Type(parse_str("String"))))),
                    parse_str_qualified("option",
                        parse_str_generic("Option",
                                          GenericArgument_Type(parse_str("String")))),
                    parse_str("Option"),
                    parse_str_generic("Option", GenericArgument_Lifetime)}
    IN PlainTypes \cup OptionTypes

\* the named fields of a struct after its id: one or two
Structs ==
    {<<[ident |-> "a", ty |-> t1]>> : t1 \in FieldTypes}
      \cup {<<[ident |-> "a", ty |-> t1], [ident |-> "b", ty |-> t2]>> :
               t1 \in FieldTypes, t2 \in FieldTypes}

\* db_object_derive at its for_each: the fields to go, the two sql strings,
\* and the closure's field and type_str of the turn before
Derive ==
    [pc |-> "", fields |-> <<>>, db_table |-> "", parameter_list |-> "",
     field |-> [ident |-> "", ty |-> parse_str("")], type_str |-> ""]

\* derive(DBObject) on a struct: db_table and parameter_list are prepared
InitDerive ==
    /\ user = {}
    /\ pwcrypt_local_token = {}
    /\ rtcrypt_local_token = EmptyBag
    /\ remote_token = {}
    /\ entries = {}
    /\ sqlite_sequence = [user |-> 0, pwcrypt_local_token |-> 0, remote_token |-> 0]
    /\ now = 0
    /\ fails = 0
    /\ last = NoAnswer
    /\ issued = {}
    /\ provisioned = {}
    /\ revoked = {}
    /\ logged_out = {}
    /\ \E fields \in Structs :
          proc = SetToBag({[Derive EXCEPT
                               !.pc = "for_each", !.fields = fields,
                               !.db_table = "id INTEGER PRIMARY KEY AUTOINCREMENT"]})

\* db_object_derive, lines 112-119: one turn of the for_each over the fields
derive_for_each(r) ==
    /\ r.pc = "for_each"
    /\ r.fields # <<>>
    /\ LET field == Head(r.fields)
           type_str == get_sql_type(field.ty)
       IN proc' = SetToBag({[r EXCEPT
                    !.fields = Tail(r.fields),
                    !.field = field,
                    !.type_str = type_str,
                    !.db_table = r.db_table \o "," \o field.ident \o " " \o type_str,
                    !.parameter_list = r.parameter_list \o field.ident \o ","]})
    /\ UNCHANGED <<tables, now, fails, last, history>>

\* String::pop: the string without its last character
pop(s) == IF s = "" THEN s ELSE SubSeq(s, 1, Len(s) - 1)

\* db_object_derive, line 121: the extra comma is removed
derive_pop(r) ==
    /\ r.pc = "for_each"
    /\ r.fields = <<>>
    /\ proc' = SetToBag({[r EXCEPT !.pc = "quote",
                                   !.parameter_list = pop(r.parameter_list)]})
    /\ UNCHANGED <<tables, now, fails, last, history>>

NextDerive ==
    \/ \E r \in InFlight : derive_for_each(r)
    \/ \E r \in InFlight : derive_pop(r)

SpecDerive == InitDerive /\ [][NextDerive]_vars

(***************************************************************************)
(* C21                                                                     *)
(***************************************************************************)
\* a type written as the one-segment path Option<T>, T a type
written_option(ty) ==
    /\ ty.variant = "Path"
    /\ Len(ty.segments) = 1
    /\ ty.segments[1].ident = "Option"
    /\ ty.segments[1].arguments.variant = "AngleBracketed"
    /\ ty.segments[1].arguments.args[1].variant = "Type"

\* a type wrapped in Option<...>, however the path to Option is written
wrapped_in_option(ty) ==
    /\ ty.variant = "Path"
    /\ LET last_segment == ty.segments[Len(ty.segments)]
       IN /\ last_segment.ident = "Option"
          /\ last_segment.arguments.variant = "AngleBracketed"
          /\ last_segment.arguments.args[1].variant = "Type"

\* the T of Option<T>
unwrapped(ty) == ty.segments[Len(ty.segments)].arguments.args[1].ty

\* the type name a path ends in, "" for a type that is no path
type_name(ty) ==
    IF ty.variant = "Path" THEN ty.segments[Len(ty.segments)].ident ELSE ""

\* the columns of the claim: String, i32, i64, f64 and bool, BLOB otherwise
column_as_stated(ty) ==
    CASE type_name(ty) = "String" -> "TEXT"
      [] type_name(ty) \in {"i32", "i64", "bool"} -> "INTEGER"
      [] type_name(ty) = "f64" -> "REAL"
      [] OTHER -> "BLOB"

\* the columns with the two date types among them
column_with_dates(ty) ==
    CASE type_name(ty) = "NaiveDate" -> "DATE"
      [] type_name(ty) = "NaiveDateTime" -> "DATETIME"
      [] OTHER -> column_as_stated(ty)

\* C21 as stated: String maps to TEXT, i32, i64 and bool to INTEGER, f64 to
\* REAL and every other type to BLOB, with " NOT NULL" after it exactly when
\* the type is not wrapped in Option<...>; Option<T> maps to the column type
\* of T without " NOT NULL".
C21_AsStated ==
    \A r \in {q \in InFlight : q.type_str # ""} :
        LET ty == r.field.ty
        IN r.type_str =
             IF wrapped_in_option(ty)
             THEN column_as_stated(unwrapped(ty))
             ELSE column_as_stated(ty) \o " NOT NULL"

\* C21, amended: a type written as a path maps by the name the path ends in:
\* String to TEXT, i32, i64 and bool to INTEGER, f64 to REAL, NaiveDate to
\* DATE, NaiveDateTime to DATETIME and every other name to BLOB, with
\* " NOT NULL" after it; a type written as the one-segment path Option<T>
\* maps to the column type of T (BLOB when T is no path) without " NOT NULL";
\* a type that is no path maps to BLOB without " NOT NULL".
C21_SqlType ==
    \A r \in {q \in InFlight : q.type_str # ""} :
        LET ty == r.field.ty
        IN r.type_str =
             IF written_option(ty) THEN column_with_dates(unwrapped(ty))
             ELSE IF ty.variant = "Path" THEN column_with_dates(ty) \o " NOT NULL"
             ELSE "BLOB"

\* a struct with a NaiveDate field and an Option<NaiveDateTime> field has
\* been through the for_each
C21_Witness ==
    \E r \in InFlight :
        /\ r.pc = "quote"
        /\ r.db_table = "id INTEGER PRIMARY KEY AUTOINCREMENT"
                          \o ",a DATE NOT NULL,b DATETIME"
        /\ r.parameter_list = "a,b"
        /\ r.field.ty = parse_str_generic("Option",
                            GenericArgument_Type(parse_str("NaiveDateTime")))
        /\ r.type_str = "DATETIME"

(***************************************************************************)
(* C22                                                                     *)
(***************************************************************************)
\* C22: in every reachable state every rtcrypt_local_token row refers to a
\* remote_token row and to a pwcrypt_local_token row that are both in the
\* store, also when an expiry purge or a logout interleaves with the rewrap
\* loop of the login that creates the session.
C22_WrappedRowsReferToRows ==
    \A lt \in BagToSet(rtcrypt_local_token) :
        /\ \E rt \in remote_token : rt.id = lt.decrypt_by_rt_id
        /\ \E p \in pwcrypt_local_token : p.id = lt.local_token_id

(***************************************************************************)
(* C23                                                                     *)
(***************************************************************************)
\* C23: when verify_token returns its error for a session it found expired,
\* whether or not a delete of invalidate_remote_token reported a store
\* failure, the wrapped rows of the session and its remote_token row are
\* deleted.
C23_CleanupRunsToCompletion ==
    [][\A r \in InFlight :
          (/\ r.pc \in {"inv_del_rtcrypt", "inv_del_remote_token"}
           /\ ~r.verified
           /\ last' # NoAnswer
           /\ proc' = proc (-) SetToBag({r}))
            => /\ wrapped_for(r.token_id)' = {}
               /\ ~(get_remote_token(r.token_id).ok)']_vars

(***************************************************************************)
(* C24                                                                     *)
(***************************************************************************)
\* C24: verify_token tests valid_until before it compares the secret.  For a
\* remote_token row whose valid_until the clock has reached, verify_token
\* returns "Token expired" for the header that carries the session's own
\* secret as for one that carries any other; a request that names such a
\* session is never answered Ok or "Invalid Token" and never goes on as
\* verified: when its read of the row returns, it goes on to
\* invalidate_remote_token for that session, and what it answers then is
\* UNAUTHORIZED.
C24_ExpiryBeforeSecret ==
    [][ /\ \A rt \in remote_token :
              token_expired(rt)
                => \A h \in headers_naming(rt.id) :
                      verify_token(h) = [result |-> "Token expired", token_id |-> rt.id]
        /\ \A rt \in remote_token :
              token_expired(rt)
                => ~ /\ last'.op \in {"verify", "logout", "get"}
                     /\ last'.token_id = rt.id
                     /\ proc' = proc
        /\ \A r \in InFlight' \ InFlight :
              r.pc \in {"inv_del_rtcrypt", "dlt_decrypt"}
                => \E rt \in remote_token :
                      /\ rt.id = r.token_id
                      /\ r.verified <=> ~token_expired(rt)
                      /\ r.verified => verify_password(r.token, rt.rt_hash)
        /\ \A r \in InFlight :
              (r.pc \in {"inv_del_rtcrypt", "inv_del_remote_token"} /\ ~r.verified
               /\ proc' = proc (-) SetToBag({r}))
                => last'.status = UNAUTHORIZED
      ]_vars

\* C24 witness: a client holds the bearer token of a session whose row is in
\* the store and has expired, verify_token answers its header "Token
\* expired", and a request that named the session is at the cascade
C24_Witness ==
    \E t \in issued, r \in InFlight :
        /\ get_remote_token(t.token_id).ok
        /\ token_expired(get_remote_token(t.token_id).val)
        /\ verify_password(t.token, get_remote_token(t.token_id).val.rt_hash)
        /\ verify_token(header_of(t)).result = "Token expired"
        /\ r.pc = "inv_del_rtcrypt"
        /\ ~r.verified
        /\ r.token_id = t.token_id

(***************************************************************************)
(* C25                                                                     *)
(***************************************************************************)
\* C25: a session id has a remote_token row (Active) from the
\* create_remote_token of a Login or Register that inserts it, under an id
\* no row ever had (Absent), until the del_remote_token of a Logout that
\* verified it or of a verify_token that found its valid_until reached; no
\* other step inserts, changes or deletes the row, the clock alone deletes
\* nothing, and an id whose row is gone (Revoked) never has a row again.
C25_SessionLifeCycle ==
    /\ [](\A rt \in remote_token : rt.id <= sqlite_sequence.remote_token)
    /\ [][\A id \in 1..(MaxRemoteTokens + 1) :
            LET before == {rt \in remote_token : rt.id = id}
                after == {rt \in remote_token' : rt.id = id}
            IN /\ (before = {} /\ after # {})
                    => /\ id > sqlite_sequence.remote_token
                       /\ id <= sqlite_sequence.remote_token'
                       /\ \E r \in InFlight :
                             /\ r.pc = "crt_new_remote_token"
                             /\ r.op \in {"login", "register"}
                             /\ proc' = (proc (-) SetToBag({r})) (+)
                                          SetToBag({[r EXCEPT
                                             !.pc = "crt_get_local_tokens",
                                             !.token = generate_token,
                                             !.token_id = id]})
               /\ (before # {} /\ after = {})
                    => \E r \in InFlight :
                          /\ r.pc = "inv_del_remote_token"
                          /\ r.token_id = id
                          /\ proc' = proc (-) SetToBag({r})
                          /\ \/ r.verified /\ r.op = "logout"
                             \/ ~r.verified /\ \A rt \in before : rt.valid_until <= now
               /\ (before # {} /\ after # {}) => after = before
               /\ (id <= sqlite_sequence.remote_token /\ before = {}) => after = {}
         ]_vars

\* C25 witness: the row of a session is gone after the purge of a
\* verify_token that found it expired, and the Login after it was given an id
\* no session had
C25_Witness ==
    \E gone \in revoked \ logged_out, rt \in remote_token :
        /\ ~get_remote_token(gone).ok
        /\ gone < rt.id
        /\ rt.id = sqlite_sequence.remote_token
        /\ now < rt.valid_until

(***************************************************************************)
(* C26                                                                     *)
(***************************************************************************)
\* C26: rows are inserted in the order of their dependencies.  A
\* pwcrypt_local_token row is inserted for a user whose row is in the store,
\* by a Register that has not called create_remote_token yet; a Register
\* calls create_remote_token when its for_each has gone through every kind;
\* a remote_token row is inserted for a user whose row is in the store; a
\* wrapped row is inserted by the create_remote_token that has inserted the
\* remote_token row it names, in an earlier step, for a LocalToken row that
\* was in the store before it; so no wrapped row names a session id or a
\* LocalToken id that was not given out before.
C26_DependencyOrder ==
    /\ [](/\ \A r \in InFlight :
                /\ r.pc = "reg_local_tokens"
                      => (r.token_id = 0 /\ \E u \in user : u.id = r.user_id)
                /\ (r.op = "register" /\ r.pc # "reg_local_tokens") => r.kinds = <<>>
          /\ \A lt \in pwcrypt_local_token : \E u \in user : u.id = lt.user_id
          /\ \A rt \in remote_token : \E u \in user : u.id = rt.user_id
          /\ \A lt \in BagToSet(rtcrypt_local_token) :
                /\ lt.decrypt_by_rt_id \in 1..sqlite_sequence.remote_token
                /\ lt.local_token_id \in 1..sqlite_sequence.pwcrypt_local_token)
    /\ [][ /\ \A lt \in pwcrypt_local_token' \ pwcrypt_local_token :
                 /\ \E u \in user : u.id = lt.user_id
                 /\ \E r \in InFlight :
                       /\ r.pc = "reg_local_tokens"
                       /\ r.user_id = lt.user_id
                       /\ r.token_id = 0
           /\ \A rt \in remote_token' \ remote_token :
                 /\ \E u \in user : u.id = rt.user_id
                 /\ \E r \in InFlight :
                       /\ r.pc = "crt_new_remote_token"
                       /\ r.user_id = rt.user_id
                       /\ r.kinds = <<>>
                 /\ \A lt \in BagToSet(rtcrypt_local_token') :
                       lt.decrypt_by_rt_id # rt.id
           /\ \A lt \in BagToSet(rtcrypt_local_token') :
                 CopiesIn(lt, rtcrypt_local_token') > CopiesIn(lt, rtcrypt_local_token)
                   => /\ lt.decrypt_by_rt_id \in 1..sqlite_sequence.remote_token
                      /\ \E p \in pwcrypt_local_token : p.id = lt.local_token_id
                      /\ \E r \in InFlight :
                            /\ r.pc = "crt_rewrap"
                            /\ r.token_id = lt.decrypt_by_rt_id
         ]_vars

\* C26 witness: a Register has inserted its user, a LocalToken of every kind,
\* its session row and the wrapped rows, and returned the token
C26_Witness ==
    \E t \in issued, rt \in remote_token :
        /\ t.by = "register"
        /\ rt.id = t.token_id
        /\ kinds_of(t.user_id) = db_idents
        /\ wrapped_for(t.token_id) = local_tokens_of(t.user_id)

(***************************************************************************)
(* C27                                                                     *)
(***************************************************************************)
\* C27: a create_remote_token that has inserted its remote_token row and
\* ended before it returned a token leaves a session that works as far as
\* it got.  While the row is in the store and has not expired, verify_token
\* with the session's id and the secret its hash was made of returns Ok
\* with the user's id; decrypt_local_token_for returns the secret
\* provisioned for a kind whose LocalToken has a wrapped row of the session
\* and an error for a kind without one; and no step of any later request
\* inserts a wrapped row for the session.
C27_PartialSession ==
    /\ [](\A rt \in remote_token :
            LET secret == rt.rt_hash.argon2
                in_flight == \E r \in InFlight :
                                r.token_id = rt.id
                                /\ r.pc \in {"crt_get_local_tokens", "crt_rewrap"}
                returned == \E t \in issued : t.token_id = rt.id
            IN (~in_flight /\ ~returned /\ ~token_expired(rt))
                 => /\ verify_token(Some(Bearer(bearer_token(rt.id, secret))))
                         = [result |-> "Ok", user_id |-> rt.user_id,
                            token_id |-> rt.id, token |-> secret]
                    /\ \A used_for \in db_idents :
                          LET lt == get_local_token_by_used_for_pwcrypt(rt.user_id, used_for)
                              key == decrypt_local_token_for(rt.user_id, used_for,
                                                             rt.id, secret)
                          IN IF lt.ok /\ lt.val.id \in wrapped_for(rt.id)
                             THEN \E s \in provisioned :
                                     /\ s.user_id = rt.user_id
                                     /\ s.used_for = used_for
                                     /\ key = Ok(s.local_token)
                             ELSE key = Err)
    /\ [][\A id \in 1..sqlite_sequence.remote_token :
             (~ \E r \in InFlight :
                   r.token_id = id /\ r.pc \in {"crt_get_local_tokens", "crt_rewrap"})
               => /\ wrapped_for(id)' \subseteq wrapped_for(id)
                  /\ ~ \E r \in InFlight' :
                         r.token_id = id
                         /\ r.pc \in {"crt_new_remote_token", "crt_get_local_tokens",
                                      "crt_rewrap"}
         ]_vars

\* C27 witness: a Login was answered INTERNAL_SERVER_ERROR after it had
\* inserted its session row and the wrapped row of one LocalToken of two;
\* the session verifies, the one kind unwraps and the other does not
C27_Witness ==
    /\ last.op = "login"
    /\ last.status = INTERNAL_SERVER_ERROR
    /\ Cardinality(last.read) = 2
    /\ Cardinality(wrapped_for(last.token_id)) = 1
    /\ \E rt \in remote_token :
          /\ rt.id = last.token_id
          /\ ~token_expired(rt)
          /\ verify_token(Some(Bearer(bearer_token(rt.id, rt.rt_hash.argon2)))).result = "Ok"
          /\ \E k1 \in db_idents, k2 \in db_idents :
                /\ decrypt_local_token_for(rt.user_id, k1, rt.id, rt.rt_hash.argon2).ok
                /\ ~decrypt_local_token_for(rt.user_id, k2, rt.id, rt.rt_hash.argon2).ok

(***************************************************************************)
(* C28                                                                     *)
(***************************************************************************)
\* C28: in every reachable state the store holds passwords and secrets only
\* hashed or encrypted.  A user row holds the hash of its password; a
\* remote_token row holds its id, user, valid_until and the hash of the
\* secret of its session; a pwcrypt_local_token row holds the local secret
\* provisioned for its (user, kind), encrypted under the user's password; a
\* wrapped row holds the local secret of the LocalToken row it names,
\* encrypted under the secret of the session it names.
C28_NoPlaintextInStore ==
    /\ \A u \in user :
          /\ DOMAIN u = {"id", "username", "password_hash"}
          /\ \E password \in Passwords : u.password_hash = [argon2 |-> password]
    /\ \A rt \in remote_token :
          /\ DOMAIN rt = {"id", "rt_hash", "user_id", "valid_until"}
          /\ DOMAIN rt.rt_hash = {"argon2"}
          /\ \A t \in issued : t.token_id = rt.id => rt.rt_hash = [argon2 |-> t.token]
    /\ \A lt \in pwcrypt_local_token :
          /\ DOMAIN lt = {"id", "user_id", "local_token", "used_for"}
          /\ \E s \in provisioned, u \in user :
                /\ u.id = lt.user_id
                /\ s.user_id = lt.user_id
                /\ s.used_for = lt.used_for
                /\ lt.local_token.data_crypt = s.local_token
                /\ u.password_hash = [argon2 |-> lt.local_token.under]
    /\ \A w \in BagToSet(rtcrypt_local_token) :
          /\ DOMAIN w = {"local_token_id", "local_token", "decrypt_by_rt_id"}
          /\ \E lt \in pwcrypt_local_token :
                /\ lt.id = w.local_token_id
                /\ w.local_token.data_crypt = lt.local_token.data_crypt
          /\ \A rt \in remote_token :
                rt.id = w.decrypt_by_rt_id
                  => rt.rt_hash = [argon2 |-> w.local_token.under]

\* C28 witness: the store holds a user, a session a client has the token of,
\* a LocalToken of every kind and the wrapped rows of the session
C28_Witness ==
    \E u \in user, t \in issued :
        /\ t.user_id = u.id
        /\ get_remote_token(t.token_id).ok
        /\ kinds_of(u.id) = db_idents
        /\ wrapped_for(t.token_id) = local_tokens_of(u.id)
        /\ t.by = "login"

(***************************************************************************)
(* C29                                                                     *)
(***************************************************************************)
\* C29: in every reachable state rtcrypt_local_token holds at most one row
\* for a pair of local_token_id and decrypt_by_rt_id, however the steps of
\* Register, Login, add_new_local_token and Logout interleave.
C29_OneWrappedRowPerPair ==
    \A w \in BagToSet(rtcrypt_local_token) :
        /\ CopiesIn(w, rtcrypt_local_token) = 1
        /\ \A other \in BagToSet(rtcrypt_local_token) :
              (other.local_token_id = w.local_token_id
               /\ other.decrypt_by_rt_id = w.decrypt_by_rt_id)
                => other = w

\* C29 witness: two sessions each have a wrapped row of every LocalToken of
\* the user, one of them added outside handle_register
C29_Witness ==
    \E t1 \in issued, t2 \in issued :
        /\ t1.token_id # t2.token_id
        /\ t1.user_id = t2.user_id
        /\ wrapped_for(t1.token_id) # {}
        /\ wrapped_for(t2.token_id) = local_tokens_of(t2.user_id)
        /\ \E s \in provisioned : s.by = "provision" /\ s.user_id = t2.user_id

(***************************************************************************)
(* C30                                                                     *)
(***************************************************************************)
\* C30: a pwcrypt_local_token row, once inserted, stays in the store as it
\* is: no step deletes or changes a row, the only steps that change the
\* table are the inserts of add_new_local_token, so the steps of Login,
\* verify_token, decrypt_local_token_for, Logout and the expiry purge leave
\* the table unchanged; and every row decrypts, under the password of its
\* user, to the secret generated for the row, in every reachable state.
C30_LocalTokensKept ==
    /\ [][ /\ pwcrypt_local_token \subseteq pwcrypt_local_token'
           /\ \A lt \in pwcrypt_local_token' \ pwcrypt_local_token :
                 /\ \A old \in pwcrypt_local_token : old.id < lt.id
                 /\ \E r \in InFlight :
                       /\ r.pc = "reg_local_tokens"
                       /\ r.op = "register"
                       /\ proc' = (proc (-) SetToBag({r})) (+)
                                    SetToBag({for_each_next(r)})
           /\ (\E r \in InFlight :
                  /\ r.op \in {"login", "verify", "logout", "get"}
                  /\ CopiesIn(r, proc') < CopiesIn(r, proc))
                 => pwcrypt_local_token' = pwcrypt_local_token
           /\ last'.op \in {"login", "verify", "logout", "get"}
                 => pwcrypt_local_token' = pwcrypt_local_token
         ]_vars
    /\ [](\A lt \in pwcrypt_local_token :
            \E u \in user, password \in Passwords, s \in provisioned :
               /\ u.id = lt.user_id
               /\ verify_password(password, u.password_hash)
               /\ s.user_id = lt.user_id
               /\ s.used_for = lt.used_for
               /\ decrypt(lt.local_token, password) = Ok(s.local_token))

\* C30 witness: after a Login and a Logout of its session, with a second
\* session gone as well, every LocalToken of the user is in the store and
\* opens under the password
C30_Witness ==
    \E t \in issued, u \in user :
        /\ t.by = "login"
        /\ t.token_id \in logged_out
        /\ u.id = t.user_id
        /\ Cardinality(revoked) = 2
        /\ kinds_of(u.id) = db_idents
        /\ \A lt \in pwcrypt_local_token :
              \E password \in Passwords :
                 /\ verify_password(password, u.password_hash)
                 /\ decrypt(lt.local_token, password).ok


(***************************************************************************)
(* The token generator itself (token_gen.rs).  The specifications above    *)
(* let one symbol of CHARSET stand for one generated string; here the      *)
(* string is built as the code builds it.                                   *)
(***************************************************************************)
LENGTH == 32

\* format!("{}", time_sufix) of Utc::now().timestamp_millis(), an i64 of
\* t.secs * 1000 + t.millis milliseconds since the epoch: its decimal digits,
\* computed from the two parts so that no number exceeds the model's integers
format_millis(t) ==
    IF t.secs = 0 THEN to_string(t.millis)
    ELSE to_string(t.secs)
           \o <<Digits[(t.millis \div 100) + 1], Digits[((t.millis \div 10) % 10) + 1],
                Digits[(t.millis % 10) + 1]>>

\* a generator that returns the random characters alone
generate_token_unsuffixed(rng, t) == [k \in 1..LENGTH |-> CHARSET[rng[k] + 1]]

\* generate_token when the random source yields the indices rng and the
\* clock reads t: LENGTH characters of CHARSET, then the timestamp
generate_token_at(rng, t) ==
    [k \in 1..LENGTH |-> CHARSET[rng[k] + 1]] \o format_millis(t)

\* a call of generate_token: the indices its random source is about to yield
\* (random_range(0..CHARSET.len()), LENGTH times) and the clock
InitToken ==
    /\ user = {}
    /\ pwcrypt_local_token = {}
    /\ rtcrypt_local_token = EmptyBag
    /\ remote_token = {}
    /\ entries = {}
    /\ sqlite_sequence = [user |-> 0, pwcrypt_local_token |-> 0, remote_token |-> 0]
    /\ now = 0
    /\ fails = 0
    /\ last = NoAnswer
    /\ issued = {}
    /\ provisioned = {}
    /\ revoked = {}
    /\ logged_out = {}
    /\ \E a \in 0..(Len(CHARSET) - 1), b \in {0, 1, 7},
          secs \in {0, 1, 999999, 1795000000}, millis \in {0, 7, 40, 999} :
          proc = SetToBag({[pc |-> "generate_token",
                            rng |-> [k \in 1..LENGTH |-> (a + b * k) % Len(CHARSET)],
                            time |-> [secs |-> secs, millis |-> millis],
                            token |-> <<>>]})

\* generate_token returns
token_generate(r) ==
    /\ r.pc = "generate_token"
    /\ proc' = SetToBag({[r EXCEPT !.pc = "done",
                                   !.token = generate_token_at(r.rng, r.time)]})
    /\ UNCHANGED <<tables, now, fails, last, history>>

SpecToken == InitToken /\ [][\E r \in InFlight : token_generate(r)]_vars

C32_OneHashBeforeFailure ==
    (last.op = "login" /\ last.status = UNAUTHORIZED) =>
       /\ last.err \in {"no user", "wrong password"}
       /\ last.hashes = 1

\* a Login with a username nobody registered, answered while a user exists
C32_Witness ==
    /\ last.op = "login"
    /\ last.status = UNAUTHORIZED
    /\ last.err = "no user"
    /\ last.hashes = 1
    /\ user # {}
    /\ fails = 0

(***************************************************************************)
(* C33.                                                                    *)
(***************************************************************************)
\* C33: every operation ends with an answer when its store calls return.  A
\* handler in flight can always take its next step, whatever the other
\* requests do (it waits for nobody); each of its steps either answers, with
\* a status, or takes it to a later phase of its code or one turn further
\* in its loop, so no step is taken twice; the rewrap loop is entered with
\* each LocalToken of the user once and every turn inserts one wrapped row
\* for the first of them that is left; a failed store call is never repeated.
C33_Terminates ==
    LET phase(r) ==
            CASE r.pc = "reg_local_tokens" -> 4
              [] r.pc = "crt_new_remote_token" -> 3
              [] r.pc = "crt_get_local_tokens" -> 2
              [] r.pc = "crt_rewrap" -> 1
              [] r.pc = "inv_del_rtcrypt" -> 2
              [] r.pc = "inv_del_remote_token" -> 1
              [] r.pc = "dlt_decrypt" -> 1
        turns_left(r) == Len(r.kinds) + Len(r.lts)
        later(r, r2) ==
            /\ r2.op = r.op
            /\ \/ phase(r2) < phase(r)
               \/ phase(r2) = phase(r) /\ turns_left(r2) < turns_left(r)
        step_of(r) ==
            \/ reg_local_tokens(r)
            \/ crt_new_remote_token(r)
            \/ crt_get_local_tokens(r)
            \/ crt_rewrap(r)
            \/ inv_del_rtcrypt(r)
            \/ inv_del_remote_token(r)
            \/ dlt_decrypt(r)
        answers(r) ==
            /\ proc' = proc (-) SetToBag({r})
            /\ last'.op = r.op
            /\ last'.status \in {OK, UNAUTHORIZED, INTERNAL_SERVER_ERROR}
        goes_on(r) ==
            \E r2 \in InFlight' :
               /\ proc' = (proc (-) SetToBag({r})) (+) SetToBag({r2})
               /\ later(r, r2)
               /\ last' = NoAnswer
        once_per_local_token(r) ==
            \A r2 \in InFlight' :
               /\ (r.pc = "crt_get_local_tokens" /\ r2.pc = "crt_rewrap"
                     /\ proc' = (proc (-) SetToBag({r})) (+) SetToBag({r2}))
                    => /\ {r2.lts[i] : i \in 1..Len(r2.lts)}
                            = {lt \in pwcrypt_local_token : lt.user_id = r.user_id}
                       /\ Len(r2.lts)
                            = Cardinality({lt \in pwcrypt_local_token :
                                             lt.user_id = r.user_id})
               /\ (r.pc = "crt_rewrap" /\ r2.pc = "crt_rewrap"
                     /\ proc' = (proc (-) SetToBag({r})) (+) SetToBag({r2}))
                    => /\ r2.lts = Tail(r.lts)
                       /\ \E row \in BagToSet(rtcrypt_local_token') :
                             /\ row.local_token_id = Head(r.lts).id
                             /\ row.decrypt_by_rt_id = r.token_id
                             /\ rtcrypt_local_token'
                                  = rtcrypt_local_token (+) SetToBag({row})
    IN \A r \in InFlight :
          /\ Quiet => ENABLED step_of(r)
          /\ ~ENABLED (step_of(r) /\ ~(answers(r) \/ goes_on(r)))
          /\ ~ENABLED (step_of(r) /\ ~once_per_local_token(r))

\* a Login has answered with its token after a rewrap loop of two turns, one
\* for each LocalToken of the user
C33_Witness ==
    /\ last.op = "login"
    /\ last.status = OK
    /\ Cardinality(last.read) = 2
    /\ Cardinality({lt \in pwcrypt_local_token : lt.user_id = last.user_id}) = 2
    /\ Cardinality({row \in BagToSet(rtcrypt_local_token) :
                       row.decrypt_by_rt_id = last.token_id}) = 2

(***************************************************************************)
(* C34.                                                                    *)
(***************************************************************************)
\* C34: verify_token changes nothing in the store when the session named has
\* not expired: a request answered by it in its first step (accepted, wrong
\* secret, unknown id, malformed header) leaves every table as it was.  It
\* starts a purge only for a session whose valid_until has passed, and the
\* steps of that purge remove rows of that session (its wrapped rows, its
\* remote_token row) and nothing else.
C34_VerifyChangesNothing ==
    [][/\ (last' # NoAnswer /\ last'.op \in {"verify", "logout", "get"} /\ proc' = proc)
            => tables' = tables
       /\ \A r2 \in InFlight' :
             (~r2.verified /\ r2.pc = "inv_del_rtcrypt" /\ proc' = proc (+) SetToBag({r2}))
                => /\ tables' = tables
                   /\ \E rt \in remote_token : rt.id = r2.token_id /\ token_expired(rt)
       /\ \A r \in InFlight :
             (~r.verified /\ r.pc \in {"inv_del_rtcrypt", "inv_del_remote_token"}
                /\ CopiesIn(r, proc') < CopiesIn(r, proc))
                => /\ UNCHANGED <<user, pwcrypt_local_token, sqlite_sequence>>
                   /\ remote_token' \subseteq remote_token
                   /\ \A rt \in remote_token \ remote_token' :
                         rt.id = r.token_id /\ token_expired(rt)
                   /\ \A row \in BagToSet(rtcrypt_local_token) \cup BagToSet(rtcrypt_local_token') :
                         \/ CopiesIn(row, rtcrypt_local_token')
                              = CopiesIn(row, rtcrypt_local_token)
                         \/ /\ row.decrypt_by_rt_id = r.token_id
                            /\ CopiesIn(row, rtcrypt_local_token') = 0]_vars

\* VerifyRequest has accepted the token of a live session, and the store
\* holds that session with its wrapped rows; an older session was purged when
\* a request named it after its expiry
C34_Witness ==
    /\ last.op = "verify"
    /\ last.status = OK
    /\ \E rt \in remote_token : rt.id = last.token_id /\ ~token_expired(rt)
    /\ \E row \in BagToSet(rtcrypt_local_token) : row.decrypt_by_rt_id = last.token_id
    /\ \E id \in revoked : id # last.token_id /\ id \notin logged_out

(***************************************************************************)
(* Two users.  The store after "alice" and "bob" have registered and the   *)
(* new_remote_token call of both registrations failed (the C37 outcome):   *)
(* both User rows and their LocalTokens of every kind, no session yet.     *)
(* From there both log in, verify, read keys and log out.                   *)
(***************************************************************************)
InitUsers ==
    /\ user = {[id |-> 1, username |-> "alice", password_hash |-> hash_password(<<"pw1">>)],
               [id |-> 2, username |-> "bob", password_hash |-> hash_password(<<"pw2">>)]}
    /\ pwcrypt_local_token =
         {[id |-> 2 * (u[1] - 1) + k, user_id |-> u[1],
           local_token |-> encrypt(<<CHARSET[2 * (u[1] - 1) + k]>>, u[2]),
           used_for |-> get_db_idents[k]] :
             u \in {<<1, <<"pw1">>>>, <<2, <<"pw2">>>>}, k \in 1..Len(get_db_idents)}
    /\ rtcrypt_local_token = EmptyBag
    /\ remote_token = {}
    /\ entries = {}
    /\ sqlite_sequence = [user |-> 2, pwcrypt_local_token |-> 2 * Len(get_db_idents),
                          remote_token |-> 0]
    /\ now = 0
    /\ fails = 0
    /\ proc = EmptyBag
    /\ last = NoAnswer
    /\ issued = {}
    /\ provisioned =
         {[by |-> "register", user_id |-> u, used_for |-> get_db_idents[k],
           local_token |-> <<CHARSET[2 * (u - 1) + k]>>] :
             u \in 1..2, k \in 1..Len(get_db_idents)}
    /\ revoked = {}
    /\ logged_out = {}

NextUsers ==
    \/ handle_login
    \/ handle_verify
    \/ handle_logout
    \/ handle_get
    \/ \E r \in InFlight : crt_new_remote_token(r)
    \/ \E r \in InFlight : crt_get_local_tokens(r)
    \/ \E r \in InFlight : crt_rewrap(r)
    \/ \E r \in InFlight : inv_del_rtcrypt(r)
    \/ \E r \in InFlight : inv_del_remote_token(r)
    \/ \E r \in InFlight : dlt_decrypt(r)
    \/ respond

SpecUsers == InitUsers /\ [][NextUsers]_vars

(***************************************************************************)
(* C35.                                                                    *)
(***************************************************************************)
\* C35: key access is per user.  A login in flight acts for the user whose
\* password it was given; the user id verify_token returns for a session is
\* the id of the user whose login created it; and the key a record handler
\* unwraps with a verified session is a local secret provisioned for that
\* user and the kind asked for, never one provisioned for another user.
C35_KeyAccessPerUser ==
    LET creator(token_id) == {t.user_id : t \in {i \in issued : i.token_id = token_id}}
    IN /\ \A r \in InFlight :
             r.op = "login" =>
                \E u \in user : u.id = r.user_id /\ verify_password(r.password, u.password_hash)
       /\ \A r \in InFlight : r.verified => creator(r.token_id) = {r.user_id}
       /\ (last.op = "verify" /\ last.status = OK) => creator(last.token_id) = {last.user_id}
       /\ (last.op = "get" /\ last.status = OK) =>
             /\ creator(last.token_id) = {last.user_id}
             /\ \E p \in provisioned :
                   /\ p.user_id = last.user_id
                   /\ p.used_for = last.used_for
                   /\ p.local_token = last.body
             /\ \A p \in provisioned : p.user_id # last.user_id => p.local_token # last.body

\* alice's session has unwrapped one of her keys while bob holds a session
\* with wrapped rows of his own
C35_Witness ==
    /\ last.op = "get"
    /\ last.status = OK
    /\ last.user_id = 1
    /\ last.body \in {p.local_token : p \in {q \in provisioned : q.user_id = 1}}
    /\ \E rt \in remote_token :
          /\ rt.user_id = 2
          /\ \E row \in BagToSet(rtcrypt_local_token) : row.decrypt_by_rt_id = rt.id

(***************************************************************************)
(* data_handler.rs: the record handlers.  handle_get, handle_new (create   *)
(* and edit) and handle_delete call verify_token, handle_get and           *)
(* handle_new unwrap the key of the DBObject type, and each makes one      *)
(* store call on the type's table.  A row keeps the columns every DB type  *)
(* has (id, user_id) and one encrypted field (name).  The store is that     *)
(* of two users who have logged in once each.                               *)
(***************************************************************************)
InitRecords ==
    LET secret(u, k) == <<CHARSET[2 * (u - 1) + k]>>
        password(u) == IF u = 1 THEN <<"pw1">> ELSE <<"pw2">>
        token(u) == <<CHARSET[2 * Len(get_db_idents) + u]>>
    IN /\ user = {[id |-> 1, username |-> "alice", password_hash |-> hash_password(password(1))],
                  [id |-> 2, username |-> "bob", password_hash |-> hash_password(password(2))]}
       /\ pwcrypt_local_token =
            {[id |-> 2 * (u - 1) + k, user_id |-> u,
              local_token |-> encrypt(secret(u, k), password(u)),
              used_for |-> get_db_idents[k]] : u \in 1..2, k \in 1..Len(get_db_idents)}
       /\ rtcrypt_local_token =
            SetToBag({new_local_token_rtcrypt(2 * (u - 1) + k,
                                              encrypt(secret(u, k), token(u)), u) :
                         u \in 1..2, k \in 1..Len(get_db_idents)})
       /\ remote_token =
            {[id |-> u, rt_hash |-> hash_password(token(u)), user_id |-> u,
              valid_until |-> TOKEN_EXPIRE] : u \in 1..2}
       /\ entries = {}
       /\ sqlite_sequence = [user |-> 2, pwcrypt_local_token |-> 2 * Len(get_db_idents),
                             remote_token |-> 2, CourseDB |-> 0, TopicDB |-> 0]
       /\ now = 0
       /\ fails = 0
       /\ proc = EmptyBag
       /\ last = NoAnswer
       /\ issued =
            {[by |-> "login", user_id |-> u, token_id |-> u, token |-> token(u),
              read |-> {2 * (u - 1) + k : k \in 1..Len(get_db_idents)}] : u \in 1..2}
       /\ provisioned =
            {[by |-> "register", user_id |-> u, used_for |-> get_db_idents[k],
              local_token |-> secret(u, k)] : u \in 1..2, k \in 1..Len(get_db_idents)}
       /\ revoked = {}
       /\ logged_out = {}

\* POST /data/<kind> up to decrypt_local_token_for
handle_new ==
    /\ FreeWorker
    /\ \E auth_header \in AuthHeaders :
        call_verify_token("new", auth_header, "dlt_decrypt")

\* DELETE /data/<kind> up to delete_entry
handle_delete ==
    /\ FreeWorker
    /\ \E auth_header \in AuthHeaders :
        call_verify_token("delete", auth_header, "delete_entry")

\* a WHERE clause that names the row by its id alone
where_params_id_only(entry_id, user_id) == <<<<"id", entry_id>>>>

\* handle_new line 217, handle_delete line 259:
\* db_param_map! { id: entry_id, user_id: user_id }
where_params(entry_id, user_id) == <<<<"id", entry_id>>, <<"user_id", user_id>>>>

\* the record handlers after verify_token: decrypt_local_token_for (handle_get,
\* handle_new), then the handler's store call and its answer.  The key is
\* kept in lts; read is the result set of select_entries
data_handler(r) ==
    LET table == {e \in entries : e.db_table = r.used_for}
        \* the rows a WHERE clause of " field = ? AND" terms selects
        where(params) == {e \in table : \A i \in 1..Len(params) : e[params[i][1]] = params[i][2]}
        select_entries(params) == query_map(where(params))
        delete_entry(params) == entries \ where(params)
        update_entry(params, where_) ==
            {IF e \in where(where_)
             THEN [f \in DOMAIN e |->
                     IF \E i \in 1..Len(params) : params[i][1] = f
                     THEN params[CHOOSE i \in 1..Len(params) : params[i][1] = f][2]
                     ELSE e[f]]
             ELSE e : e \in entries}
        new_entry(params) ==
            [f \in {"db_table", "id"} \cup {params[i][1] : i \in 1..Len(params)} |->
                CASE f = "db_table" -> r.used_for
                  [] f = "id" -> sqlite_sequence[r.used_for] + 1
                  [] OTHER -> params[CHOOSE i \in 1..Len(params) : params[i][1] = f][2]]
        \* CourseSend::to_param_vec and from_dbt
        to_param_vec(name, key) == <<<<"name", encrypt(name, key)>>>>
        from_dbt(dbt, key) ==
            LET name == decrypt(dbt.name, key)
            IN IF name.ok THEN Ok([id |-> dbt.id, name |-> name.val]) ELSE Err
        Replies(status, err, body, read) ==
            Reply(r, [Answer(r.op, status, err, body) EXCEPT
                         !.user_id = r.user_id, !.token_id = r.token_id,
                         !.used_for = r.used_for, !.read = read])
        failed == /\ StoreFails
                  /\ Replies(INTERNAL_SERVER_ERROR, "store", <<>>, {})
                  /\ UNCHANGED <<entries, sqlite_sequence>>
        ids == {None} \cup {Some(i) : i \in 1..MaxEntries}
    IN /\ Quiet
       /\ \/ /\ r.pc = "dlt_decrypt"
             /\ \/ failed
                \/ /\ UNCHANGED <<fails, entries, sqlite_sequence>>
                   /\ LET local_token ==
                            decrypt_local_token_for(r.user_id, r.used_for, r.token_id, r.token)
                      IN IF local_token.ok
                         THEN Goto(r, [r EXCEPT !.lts = <<local_token.val>>,
                                                !.pc = IF r.op = "get" THEN "select_entries"
                                                       ELSE "new_entry"])
                         ELSE Replies(INTERNAL_SERVER_ERROR, "no key", <<>>, {})
          \/ /\ r.pc = "select_entries"
             /\ \/ failed
                \/ /\ UNCHANGED <<fails, entries, sqlite_sequence>>
                   /\ \E id \in ids :
                        LET params == <<<<"user_id", r.user_id>>>>
                                        \o (IF id.some THEN <<<<"id", id.val>>>> ELSE <<>>)
                            found == select_entries(params)
                            sent == [i \in 1..Len(found) |-> from_dbt(found[i], r.lts[1])]
                        IN IF \A i \in 1..Len(sent) : sent[i].ok
                           THEN Replies(OK, "", [i \in 1..Len(sent) |-> sent[i].val],
                                        {found[i] : i \in 1..Len(found)})
                           ELSE Replies(INTERNAL_SERVER_ERROR, "from_dbt", <<>>,
                                        {found[i] : i \in 1..Len(found)})
          \/ /\ r.pc = "new_entry"
             /\ \/ failed
                \/ /\ UNCHANGED fails
                   /\ \E id \in ids, name \in {<<"x">>, <<"y">>} :
                        IF ~id.some
                        THEN /\ sqlite_sequence[r.used_for] < MaxEntries
                             /\ LET row == new_entry(<<<<"user_id", r.user_id>>>>
                                                       \o to_param_vec(name, r.lts[1]))
                                IN /\ entries' = entries \cup {row}
                                   /\ sqlite_sequence' =
                                        [sqlite_sequence EXCEPT ![r.used_for] = row.id]
                                   /\ Replies(OK, "", <<row.id>>, {})
                        ELSE /\ entries' = update_entry(to_param_vec(name, r.lts[1]),
                                                        where_params(id.val, r.user_id))
                             /\ UNCHANGED sqlite_sequence
                             /\ Replies(OK, "", <<id.val>>, {})
          \/ /\ r.pc = "delete_entry"
             /\ \/ failed
                \/ /\ UNCHANGED <<fails, sqlite_sequence>>
                   /\ \E id \in 1..MaxEntries :
                        /\ entries' = delete_entry(where_params(id, r.user_id))
                        /\ Replies(OK, "", <<id>>, {})
       /\ UNCHANGED <<user, pwcrypt_local_token, rtcrypt_local_token, remote_token, now,
                      history>>

NextRecords ==
    \/ handle_get
    \/ handle_new
    \/ handle_delete
    \/ \E r \in InFlight : data_handler(r)
    \/ respond

SpecRecords == InitRecords /\ [][NextRecords]_vars

(***************************************************************************)
(* C36.                                                                    *)
(***************************************************************************)
\* C36: the record handlers act only for a verified session and only on the
\* records of the session's owner.  A request that verify_token rejects is
\* answered UNAUTHORIZED in that step, with no record read and none changed;
\* a handler that has got as far as a record acts for the user whose login
\* created its session; every row a step inserts, rewrites or removes, the
\* old row and the new, carries that user's id, and so does every row a get
\* read and returned -- also when the edit or delete names the id of a row
\* of another user.
C36_OwnRecordsOnly ==
    [][LET creator(token_id) == {t.user_id : t \in {i \in issued : i.token_id = token_id}}
           at_records == {r \in InFlight :
                            r.pc \in {"dlt_decrypt", "select_entries", "new_entry",
                                      "delete_entry"}}
       IN /\ (last' # NoAnswer /\ last'.op \in {"get", "new", "delete"}
                 /\ last'.status = UNAUTHORIZED)
               => (entries' = entries /\ last'.read = {} /\ proc' = proc)
          /\ \A r \in at_records : r.verified /\ creator(r.token_id) = {r.user_id}
          /\ entries' # entries
               => \E r \in at_records :
                     /\ proc' = proc (-) SetToBag({r})
                     /\ \A e \in (entries \ entries') \cup (entries' \ entries) :
                           e.user_id = r.user_id /\ e.db_table = r.used_for
          /\ (last' # NoAnswer /\ last'.op = "get")
               => /\ \A e \in last'.read : e.user_id = last'.user_id
                  /\ \A i \in 1..Len(last'.body) :
                        \E e \in last'.read : e.id = last'.body[i].id]_vars

\* alice's session has deleted by the id of a row that is bob's: the answer
\* is Ok and bob's row is still in the table
C36_Witness ==
    /\ last.op = "delete"
    /\ last.status = OK
    /\ last.user_id = 1
    /\ \E e \in entries :
          /\ e.db_table = last.used_for
          /\ e.id = last.body[1]
          /\ e.user_id = 2


(***************************************************************************)
(* Register after a failed session issuance.                               *)
(***************************************************************************)
\* C37: handle_register undoes nothing when create_remote_token fails after
\* new_user succeeded.  No step removes a user row or a password-wrapped
\* local token; when Register answers INTERNAL_SERVER_ERROR the user row it
\* inserted and every local token it provisioned are in the store; once the
\* registration is over, a Register that answers answers CONFLICT, none
\* starts provisioning again and no second row takes the username; and a
\* Login with the registered password passes verify_password and enters
\* create_remote_token whenever a worker is free.
C37_RegisterNotAtomic ==
    [][LET registering(user_id) ==
               \E r \in InFlight : r.op = "register" /\ r.user_id = user_id
           kept(user_id) ==
               \A p \in provisioned' :
                  p.user_id = user_id =>
                     \E lt \in pwcrypt_local_token' :
                        /\ lt.user_id = user_id
                        /\ lt.used_for = p.used_for
                        /\ lt.local_token.data_crypt = p.local_token
           login_enters(user_id) ==
               /\ handle_login
               /\ \E r2 \in InFlight' :
                     /\ proc' = proc (+) SetToBag({r2})
                     /\ r2.op = "login"
                     /\ r2.user_id = user_id
                     /\ r2.pc = "crt_new_remote_token"
       IN /\ user \subseteq user'
          /\ pwcrypt_local_token \subseteq pwcrypt_local_token'
          /\ (last'.op = "register" /\ last'.status = INTERNAL_SERVER_ERROR) =>
                /\ \E u \in user' : u.id = last'.user_id
                /\ kept(last'.user_id)
          /\ \A u \in user :
                ~registering(u.id) =>
                   /\ last'.op = "register" => last'.status = CONFLICT
                   /\ \A r2 \in InFlight' : r2.op = "register" => r2 \in InFlight
                   /\ \A v \in user' : v.username = u.username => v.id = u.id
                   /\ (FreeWorker /\ CanIssue) => ENABLED login_enters(u.id)
      ]_vars

\* a Register ended without issuing a session, and a Login of the same user
\* has now answered OK after re-wrapping both local tokens Register left
C37_Witness ==
    /\ last.op = "login"
    /\ last.status = OK
    /\ Cardinality(last.read) = Len(get_db_idents)
    /\ \E u \in user :
          /\ u.id = last.user_id
          /\ \A r \in InFlight : r.op # "register"
          /\ \A i \in issued : i.by # "register"
          /\ \E i \in issued : i.by = "login" /\ i.user_id = u.id
          /\ Cardinality({p \in provisioned : p.user_id = u.id}) = Len(get_db_idents)


(***************************************************************************)
(* Logout against logout.                                                  *)
(***************************************************************************)
\* C38: Logout calls that present the same token, their store calls
\* interleaved in any order.  Every remote_token row holds a hash
\* hash_password produced, so verify_token's expect is never reached; a step
\* of a logout touches no remote_token row and no wrapped row of another
\* session and no other table; a Logout answers OK or UNAUTHORIZED unless the
\* store call of its answering step failed; and when a verified Logout
\* answers without such a failure, and ever after a Logout answered OK,
\* neither the remote_token row nor a wrapped row of the session is in the
\* store, whatever the other Logout has done or still has to do.
C38_ConcurrentLogout ==
    [][LET acts(r) == CopiesIn(r, proc') < CopiesIn(r, proc)
           gone(token_id) ==
               /\ \A rt \in remote_token' : rt.id # token_id
               /\ \A lt \in BagToSet(rtcrypt_local_token') :
                     lt.decrypt_by_rt_id # token_id
       IN /\ \A rt \in remote_token : DOMAIN rt.rt_hash = {"argon2"}
          /\ \A r \in InFlight :
                (r.op = "logout" /\ acts(r)) =>
                   /\ \A rt \in remote_token :
                         rt.id # r.token_id => rt \in remote_token'
                   /\ \A lt \in BagToSet(rtcrypt_local_token) :
                         lt.decrypt_by_rt_id # r.token_id =>
                            CopiesIn(lt, rtcrypt_local_token')
                              = CopiesIn(lt, rtcrypt_local_token)
                   /\ remote_token' \subseteq remote_token
                   /\ UNCHANGED <<user, pwcrypt_local_token, entries, sqlite_sequence>>
                   /\ (~Quiet' /\ r.verified /\ fails' = fails) =>
                         /\ last'.status = OK
                         /\ last'.token_id = r.token_id
                         /\ gone(r.token_id)
          /\ last'.op = "logout" =>
                \/ last'.status \in {OK, UNAUTHORIZED}
                \/ last'.status = INTERNAL_SERVER_ERROR /\ fails' # fails
          /\ \A token_id \in logged_out' : gone(token_id)
      ]_vars

\* one Logout of a session has answered OK while another Logout that verified
\* the same token before the rows went is still on its way to its own deletes
C38_Witness ==
    \E r \in InFlight :
       /\ r.op = "logout"
       /\ r.verified
       /\ r.pc = "inv_del_rtcrypt"
       /\ r.token_id \in logged_out
       /\ \E i \in issued : i.token_id = r.token_id /\ i.token = r.token
       /\ \E rt \in remote_token : rt.id # r.token_id

====
